---- MODULE Spec2Model ----
(***************************************************************************)
(* Model of the money importer: the rule-based transaction categorizer     *)
(* (loader/categorizer.rs and the earlier importer/categorizer.rs), the    *)
(* OFX/QFX lexer and schema parser (importer/qfx_file) and the loader that *)
(* walks the accounts and imports their files (loader/mod.rs, db).         *)
(*                                                                         *)
(* Strings the code slices (names, prefixes, patterns, memos) are          *)
(* sequences of one-character strings.  Option<T> is a sequence of length  *)
(* at most one: << >> is None and << v >> is Some(v).  A HashMap or a      *)
(* PatriciaMap is a function whose DOMAIN is the set of keys present.      *)
(***************************************************************************)
EXTENDS Integers, Sequences, FiniteSets, Bags, TLC

VARIABLES
    transaction_types,        \* Vec<TransactionTypeConfig> given to build
    rules,                    \* Vec<TransactionRuleConfig> given to build
    categorizer,              \* result of Categorizer::build (or "unbuilt")
    unknown_type_counts,      \* importer revision: MissingTypeInfo -> count
    unknown_category_counts,  \* importer revision: MissingRuleInfo -> count
    transactions_left,        \* transactions the caller has still to classify
    history,                  \* the categorize calls made so far, with their results
    transactions,             \* the transactions the caller draws its calls from
    tokens,                   \* QfxReader.contents: the tokens written in the file
    is_xml,                   \* QfxReader.is_xml: the dialect the header announced
    parser,                   \* the DocumentParser, with its Lexer over the contents
    returns,                  \* what the calls of next_statement_transaction returned
    emitted,                  \* what the calls of Lexer::next returned
    config,                   \* AppConfig: transaction_type, rule and account
    file_system,              \* what the directories and the files of the run hold
    step,                     \* LoadState.step
    load_pc,                  \* where load is: the phase it has completed
    load_result,              \* what load returned: "Ok", "Err", or "Pending"
    load_error,               \* the error load returned, if it returned one
    total_count,              \* LoadState.total_count
    loaded_count,             \* LoadState.loaded_count
    walker,                   \* list_accounts: account, stack, read_dir, pending send
    file_queue,               \* the channel: the pairs sent and not yet received
    imports,                  \* the bag of the import_file futures that are running
    dates,                    \* import_files: the Mutex of (first date, last date)
    db,                       \* the tables of the database
    sent,                     \* the pairs the walker has sent, in order
    completed,                \* the paths whose import_file returned Ok, in order
    read,                     \* how many transactions the files have yielded
    last,                     \* the transaction the loop of import_file ran on last
    categorize_calls,         \* how many times categorize has been called by it
    header,                   \* read_sgml_header: its locals, the line read, the result
    bytes_lexer,              \* the Lexer over the bytes of a file
    lexed,                    \* what the calls of Lexer::next on the bytes returned
    progress_call,            \* LoadState::progress: where a call is, and its locals
    progress_returns          \* what the calls of LoadState::progress returned

catVars == <<transaction_types, rules, categorizer, unknown_type_counts,
             unknown_category_counts, transactions_left, history, transactions>>

parserVars == <<tokens, is_xml, parser, returns, emitted>>

loaderVars == <<config, file_system, step, load_pc, load_result, load_error,
                total_count, loaded_count, walker, file_queue, imports, dates, db, sent,
                completed, read, last, categorize_calls>>

readerVars == <<header, bytes_lexer, lexed>>

uiVars == <<progress_call, progress_returns>>

vars == <<catVars, parserVars, loaderVars, readerVars, uiVars>>

-----------------------------------------------------------------------------
(* Option and map helpers *)

NoneV == << >>

Some(v) == << v >>

IsSome(o) == Len(o) = 1

Unwrap(o) == o[1]

EmptyMap == [k \in {} |-> {}]

HasKey(m, k) == k \in DOMAIN m

MapPut(m, k, v) == [x \in (DOMAIN m) \cup {k} |-> IF x = k THEN v ELSE m[x]]

MapValues(m) == {m[k] : k \in DOMAIN m}

Range(f) == {f[x] : x \in DOMAIN f}

SeqsUpTo(S, n) == UNION {[1..k -> S] : k \in 0..n}

-----------------------------------------------------------------------------
(* str helpers *)

starts_with(s, p) == Len(p) <= Len(s) /\ SubSeq(s, 1, Len(p)) = p

strip_prefix(s, p) ==
    IF starts_with(s, p) THEN Some(SubSeq(s, Len(p) + 1, Len(s))) ELSE NoneV

is_whitespace(c) == c = " "

RECURSIVE trim_start(_)
trim_start(s) ==
    IF Len(s) > 0 /\ is_whitespace(s[1]) THEN trim_start(Tail(s)) ELSE s

RECURSIVE trim_end(_)
trim_end(s) ==
    IF Len(s) > 0 /\ is_whitespace(s[Len(s)])
    THEN trim_end(SubSeq(s, 1, Len(s) - 1))
    ELSE s

trim(s) == trim_end(trim_start(s))

-----------------------------------------------------------------------------
(* Categorizer::build *)

BuildErr(kind, detail) ==
    [status |-> "err", error |-> [kind |-> kind, detail |-> detail],
     prefix_map |-> EmptyMap, source_type_map |-> EmptyMap, categories |-> {}]

\* InsertPatterns with the Occupied arm overwriting instead of failing
RECURSIVE InsertPatternsOverwrite(_, _, _)
InsertPatternsOverwrite(entry, rule, i) ==
    IF i > Len(rule.patterns) THEN [ok |-> TRUE, entry |-> entry, error |-> NoneV]
    ELSE InsertPatternsOverwrite(
             MapPut(entry, rule.patterns[i],
                    [category |-> rule.category, ignore |-> rule.ignore]),
             rule, i + 1)

\* for pattern_str in rule.patterns { match entry.entry(pattern_str) ... }
RECURSIVE InsertPatterns(_, _, _)
InsertPatterns(entry, rule, i) ==
    IF i > Len(rule.patterns) THEN [ok |-> TRUE, entry |-> entry, error |-> NoneV]
    ELSE LET pattern_str == rule.patterns[i] IN
         IF HasKey(entry, pattern_str)
         THEN [ok |-> FALSE, entry |-> entry,
               error |-> Some([pattern |-> pattern_str,
                               existing |-> entry[pattern_str].category,
                               new |-> rule.category])]
         ELSE InsertPatterns(
                  MapPut(entry, pattern_str,
                         [category |-> rule.category, ignore |-> rule.ignore]),
                  rule, i + 1)

\* for rule in rules { type_categories.entry(rule.transaction_type).or_default() ... }
RECURSIVE BucketRules(_, _, _)
BucketRules(type_categories, rs, i) ==
    IF i > Len(rs) THEN [ok |-> TRUE, type_categories |-> type_categories, error |-> NoneV]
    ELSE LET rule == rs[i]
             entry == IF HasKey(type_categories, rule.transaction_type)
                      THEN type_categories[rule.transaction_type]
                      ELSE EmptyMap
             ins == InsertPatterns(entry, rule, 1)
         IN  IF ~ins.ok
             THEN [ok |-> FALSE, type_categories |-> type_categories, error |-> ins.error]
             ELSE BucketRules(MapPut(type_categories, rule.transaction_type, ins.entry),
                              rs, i + 1)

\* InsertAccounts with the result of insert ignored: a second decoder replaces
\* the first
RECURSIVE InsertAccountsOverwrite(_, _, _, _, _)
InsertAccountsOverwrite(map, accounts, key, decoder, i) ==
    IF i > Len(accounts) THEN [ok |-> TRUE, map |-> map]
    ELSE LET account == accounts[i]
             inner == IF HasKey(map, account) THEN map[account] ELSE EmptyMap
         IN  InsertAccountsOverwrite(MapPut(map, account, MapPut(inner, key, decoder)),
                                     accounts, key, decoder, i + 1)

\* InsertAccounts with the collision checked for the first listed account only
RECURSIVE InsertAccountsFirstOnly(_, _, _, _, _)
InsertAccountsFirstOnly(map, accounts, key, decoder, i) ==
    IF i > Len(accounts) THEN [ok |-> TRUE, map |-> map]
    ELSE LET account == accounts[i]
             inner == IF HasKey(map, account) THEN map[account] ELSE EmptyMap
         IN  IF HasKey(inner, key) /\ i = 1
             THEN [ok |-> FALSE, map |-> map]
             ELSE InsertAccountsFirstOnly(
                      MapPut(map, account, MapPut(inner, key, decoder)),
                      accounts, key, decoder, i + 1)

\* for account in type_config.accounts { map.entry(account).or_default().insert(key, decoder) }
RECURSIVE InsertAccounts(_, _, _, _, _)
InsertAccounts(map, accounts, key, decoder, i) ==
    IF i > Len(accounts) THEN [ok |-> TRUE, map |-> map]
    ELSE LET account == accounts[i]
             inner == IF HasKey(map, account) THEN map[account] ELSE EmptyMap
         IN  IF HasKey(inner, key)
             THEN [ok |-> FALSE, map |-> map]
             ELSE InsertAccounts(MapPut(map, account, MapPut(inner, key, decoder)),
                                 accounts, key, decoder, i + 1)

\* UsedCategories without the test of category.ignore
UsedCategoriesWithIgnored(categories, income) ==
    {<<pc.category, income>> : pc \in MapValues(categories)}

\* UsedCategories with every category taken for income
UsedCategoriesAsIncome(categories, income) ==
    {<<pc.category, TRUE>> : pc \in {c \in MapValues(categories) : ~c.ignore}}

\* used_categories.insert((category.category, type_config.income)) unless ignored
UsedCategories(categories, income) ==
    {<<pc.category, income>> : pc \in {c \in MapValues(categories) : ~c.ignore}}

\* for type_config in transaction_types { ... }
RECURSIVE BuildTypes(_, _, _, _, _, _)
BuildTypes(type_categories, tcs, i, used_categories, prefix_map, source_type_map) ==
    IF i > Len(tcs)
    THEN [status |-> "ok", error |-> [kind |-> "none", detail |-> NoneV],
          prefix_map |-> prefix_map, source_type_map |-> source_type_map,
          categories |-> used_categories]
    ELSE LET type_config == tcs[i]
             categories == IF HasKey(type_categories, type_config.transaction_type)
                           THEN type_categories[type_config.transaction_type]
                           ELSE EmptyMap
             used == used_categories \cup UsedCategories(categories, type_config.income)
             decoder == [transaction_type |-> type_config.transaction_type,
                         name_source |-> type_config.name_source,
                         income |-> type_config.income,
                         categories |-> categories]
         IN  IF type_config.mode = "Prefix"
             THEN IF ~IsSome(type_config.prefix)
                  THEN BuildErr("MissingPrefix", NoneV)
                  ELSE LET prefix == Unwrap(type_config.prefix)
                           ins == InsertAccounts(prefix_map, type_config.accounts,
                                                 prefix, decoder, 1)
                       IN  IF ~ins.ok
                           THEN BuildErr("DuplicatePrefix", Some(prefix))
                           ELSE BuildTypes(type_categories, tcs, i + 1, used,
                                           ins.map, source_type_map)
             ELSE IF ~IsSome(type_config.source_type)
                  THEN BuildErr("MissingSourceType", NoneV)
                  ELSE LET source_type == Unwrap(type_config.source_type)
                           ins == InsertAccounts(source_type_map, type_config.accounts,
                                                 source_type, decoder, 1)
                       IN  IF ~ins.ok
                           THEN BuildErr("DuplicateSourceType", Some(source_type))
                           ELSE BuildTypes(type_categories, tcs, i + 1, used,
                                           prefix_map, ins.map)

build(tcs, rs) ==
    LET bucketed == BucketRules(EmptyMap, rs, 1) IN
    IF ~bucketed.ok
    THEN BuildErr("DuplicateRule", bucketed.error)
    ELSE BuildTypes(bucketed.type_categories, tcs, 1, {}, EmptyMap, EmptyMap)

-----------------------------------------------------------------------------
(* Categorizer::categorize, loader revision (&self, typed errors) *)

\* the entry of the longest key of the map, whatever the name
get_longest_key(prefixes, name) ==
    IF DOMAIN prefixes = {} THEN NoneV
    ELSE LET p == CHOOSE x \in DOMAIN prefixes : \A y \in DOMAIN prefixes : Len(y) <= Len(x)
         IN  Some([prefix |-> p, decoder |-> prefixes[p]])

\* GenericPatriciaMap::get_longest_common_prefix: the entry whose key is the
\* longest key of the map that is a prefix of name
get_longest_common_prefix(prefixes, name) ==
    LET hits == {p \in DOMAIN prefixes : starts_with(name, p)} IN
    IF hits = {} THEN NoneV
    ELSE LET p == CHOOSE x \in hits : \A y \in hits : Len(y) <= Len(x)
         IN  Some([prefix |-> p, decoder |-> prefixes[p]])

\* self.prefix_map.get(account).and_then(|prefixes| prefixes.get_longest_common_prefix(name))
prefix_match(cat, account, name) ==
    IF HasKey(cat.prefix_map, account)
    THEN get_longest_common_prefix(cat.prefix_map[account], name)
    ELSE NoneV

\* type_match looking the source type up in the maps of all accounts
type_match_any_account(cat, account, transaction_tye) ==
    LET owners == {a \in DOMAIN cat.source_type_map :
                       HasKey(cat.source_type_map[a], transaction_tye)}
    IN  IF owners = {} THEN NoneV
        ELSE Some(cat.source_type_map[CHOOSE a \in owners : TRUE][transaction_tye])

\* self.source_type_map.get(account).and_then(|types| types.get(&transaction_tye))
type_match(cat, account, transaction_tye) ==
    IF HasKey(cat.source_type_map, account)
       /\ HasKey(cat.source_type_map[account], transaction_tye)
    THEN Some(cat.source_type_map[account][transaction_tye])
    ELSE NoneV

Categorized(income, ignore, category) ==
    [kind |-> "Categorized",
     value |-> [income |-> income, ignore |-> ignore, category |-> category]]

MissingType(account, source_type, name) ==
    [kind |-> "MissingType",
     value |-> [account |-> account, source_type |-> source_type, name |-> name]]

MissingRule(account, transaction_type, display) ==
    [kind |-> "MissingRule",
     value |-> [account |-> account, transaction_type |-> transaction_type,
                display |-> display]]

CatErr(error, detail) == [kind |-> "Err", value |-> [error |-> error, detail |-> detail]]

\* display_name with NameSuffix falling back to the whole name when no prefix
\* was matched
display_name_suffix_falls_back(decoder, matched_prefix, name, memo) ==
    IF decoder.name_source = "Memo"
    THEN IF IsSome(memo) THEN [ok |-> TRUE, text |-> Unwrap(memo), error |-> "none"]
         ELSE [ok |-> FALSE, text |-> << >>, error |-> "MissingMemo"]
    ELSE IF decoder.name_source = "Name" \/ ~IsSome(matched_prefix)
    THEN [ok |-> TRUE, text |-> name, error |-> "none"]
    ELSE LET stripped == strip_prefix(name, Unwrap(matched_prefix)) IN
         IF IsSome(stripped)
         THEN [ok |-> TRUE, text |-> Unwrap(stripped), error |-> "none"]
         ELSE [ok |-> FALSE, text |-> << >>, error |-> "PrefixNotContained"]

\* the selection of display_name by decoder.name_source, before the trim
display_name(decoder, matched_prefix, name, memo) ==
    IF decoder.name_source = "Memo"
    THEN IF IsSome(memo) THEN [ok |-> TRUE, text |-> Unwrap(memo), error |-> "none"]
         ELSE [ok |-> FALSE, text |-> << >>, error |-> "MissingMemo"]
    ELSE IF decoder.name_source = "Name"
    THEN [ok |-> TRUE, text |-> name, error |-> "none"]
    ELSE IF ~IsSome(matched_prefix)
    THEN [ok |-> FALSE, text |-> << >>, error |-> "NameSuffixInSourceType"]
    ELSE LET stripped == strip_prefix(name, Unwrap(matched_prefix)) IN
         IF IsSome(stripped)
         THEN [ok |-> TRUE, text |-> Unwrap(stripped), error |-> "none"]
         ELSE [ok |-> FALSE, text |-> << >>, error |-> "PrefixNotContained"]

\* the lookup of the trimmed display name in decoder.categories
lookup(decoder, account, display) ==
    IF HasKey(decoder.categories, display)
    THEN Categorized(decoder.income, decoder.categories[display].ignore,
                     decoder.categories[display].category)
    ELSE MissingRule(account, decoder.transaction_type, display)

\* the lookup made on the display name as it was selected
decode_untrimmed(decoder, matched_prefix, account, name, memo) ==
    LET dn == display_name(decoder, matched_prefix, name, memo) IN
    IF ~dn.ok THEN CatErr(dn.error, NoneV)
    ELSE lookup(decoder, account, dn.text)

\* categorize from the decoder on: display_name, display_name.trim(), the lookup
decode(decoder, matched_prefix, account, name, memo) ==
    LET dn == display_name(decoder, matched_prefix, name, memo) IN
    IF ~dn.ok THEN CatErr(dn.error, NoneV)
    ELSE lookup(decoder, account, trim(dn.text))

\* categorize with the prefix match taking precedence over the type match
categorize_prefix_wins(cat, account, name, transaction_tye, memo) ==
    LET pm == prefix_match(cat, account, name)
        tm == type_match(cat, account, transaction_tye)
    IN  IF IsSome(pm)
        THEN decode(Unwrap(pm).decoder, Some(Unwrap(pm).prefix), account, name, memo)
        ELSE IF IsSome(tm)
        THEN decode(Unwrap(tm), NoneV, account, name, memo)
        ELSE MissingType(account, transaction_tye, name)

categorize(cat, account, name, transaction_tye, memo) ==
    LET pm == prefix_match(cat, account, name)
        tm == type_match(cat, account, transaction_tye)
    IN  IF IsSome(pm) /\ ~IsSome(tm)
        THEN decode(Unwrap(pm).decoder, Some(Unwrap(pm).prefix), account, name, memo)
        ELSE IF ~IsSome(pm) /\ IsSome(tm)
        THEN decode(Unwrap(tm), NoneV, account, name, memo)
        ELSE IF IsSome(pm) /\ IsSome(tm)
        THEN CatErr("MatchedTypeAndPrefix",
                    Some([account |-> account, prefix |-> Unwrap(pm).prefix,
                          transaction_type |-> transaction_tye, name |-> name]))
        ELSE MissingType(account, transaction_tye, name)

-----------------------------------------------------------------------------
(* Categorizer::categorize, importer revision (&mut self, eyre errors,      *)
(* Ok(None) for a miss, and the two miss counters)                          *)

CountUp(counts, key) ==
    MapPut(counts, key, IF HasKey(counts, key) THEN counts[key] + 1 ELSE 1)

ImporterErr(message) == [kind |-> "Err", value |-> [error |-> message, detail |-> NoneV]]

ImporterNone == [kind |-> "None", value |-> [error |-> "none", detail |-> NoneV]]

importer_error_message(error) ==
    CASE error = "MissingMemo" ->
             "Missing memo for transaction using memo as the name source"
      [] error = "NameSuffixInSourceType" ->
             "NameSuffix name source cannot be used in SourceType mode"
      [] OTHER -> "Name does not contain selected prefix"

\* importer_decode counting the display name of a categorized transaction too
importer_decode_counts_hits(decoder, matched_prefix, account, name, memo, types, cats) ==
    LET dn == display_name(decoder, matched_prefix, name, memo) IN
    IF ~dn.ok
    THEN [result |-> ImporterErr(importer_error_message(dn.error)),
          unknown_type_counts |-> types, unknown_category_counts |-> cats]
    ELSE LET display == trim(dn.text) IN
         [result |-> IF HasKey(decoder.categories, display)
                     THEN Categorized(decoder.income, decoder.categories[display].ignore,
                                      decoder.categories[display].category)
                     ELSE ImporterNone,
          unknown_type_counts |-> types,
          unknown_category_counts |->
              CountUp(cats, <<account, decoder.transaction_type, display>>)]

\* returns the result and the two counter maps after the call
importer_decode(decoder, matched_prefix, account, name, memo, types, cats) ==
    LET dn == display_name(decoder, matched_prefix, name, memo) IN
    IF ~dn.ok
    THEN [result |-> ImporterErr(importer_error_message(dn.error)),
          unknown_type_counts |-> types, unknown_category_counts |-> cats]
    ELSE LET display == trim(dn.text) IN
         IF HasKey(decoder.categories, display)
         THEN [result |-> Categorized(decoder.income, decoder.categories[display].ignore,
                                      decoder.categories[display].category),
               unknown_type_counts |-> types, unknown_category_counts |-> cats]
         ELSE [result |-> ImporterNone,
               unknown_type_counts |-> types,
               unknown_category_counts |->
                   CountUp(cats, <<account, decoder.transaction_type, display>>)]

importer_categorize(cat, account, name, transaction_tye, memo, types, cats) ==
    LET pm == prefix_match(cat, account, name)
        tm == type_match(cat, account, transaction_tye)
    IN  IF IsSome(pm) /\ ~IsSome(tm)
        THEN importer_decode(Unwrap(pm).decoder, Some(Unwrap(pm).prefix),
                             account, name, memo, types, cats)
        ELSE IF ~IsSome(pm) /\ IsSome(tm)
        THEN importer_decode(Unwrap(tm), NoneV, account, name, memo, types, cats)
        ELSE IF IsSome(pm) /\ IsSome(tm)
        THEN [result |-> ImporterErr("todo"),
              unknown_type_counts |-> types, unknown_category_counts |-> cats]
        ELSE [result |-> ImporterNone,
              unknown_type_counts |-> CountUp(types, <<account, transaction_tye, name>>),
              unknown_category_counts |-> cats]

-----------------------------------------------------------------------------
(* Bounded inputs of the categorizer *)

MaxTypes == 2

MaxRules == 2

MaxPatterns == 2

MaxAccounts == 2

MaxCalls == 3

Accounts == {"chequing", "visa"}

CallAccounts == Accounts \cup {"unknown"}

UserTypes == {"DebitPurchase", "Interest"}

SourceTypes == {"Debit", "Pos"}

NameSources == {"Memo", "Name", "NameSuffix"}

Prefixes == {<<"A">>, <<"A", "B">>}

Patterns == {<<"B">>, <<"A", "B">>}

Categories == {"Food", "Fees"}

Names == {<<"A">>, <<"B">>, <<"A", "B">>, <<" ", "B">>, <<"A", " ", "B">>}

Memos == {NoneV, Some(<<"B", " ">>)}

PrefixKeys == {[mode |-> "Prefix", prefix |-> p, source_type |-> NoneV] :
                   p \in {NoneV} \cup {Some(x) : x \in Prefixes}}

SourceTypeKeys == {[mode |-> "SourceType", prefix |-> NoneV, source_type |-> t] :
                       t \in {NoneV} \cup {Some(x) : x \in SourceTypes}}

AccountLists == SeqsUpTo(Accounts, MaxAccounts) \ {<< >>}

\* TransactionTypeConfig records over the given field values
TypeConfigs(keys, users, incomes, sources, lists) ==
    {[mode |-> k.mode, prefix |-> k.prefix, source_type |-> k.source_type,
      transaction_type |-> u, income |-> inc, name_source |-> ns, accounts |-> al] :
         k \in keys, u \in users, inc \in incomes, ns \in sources, al \in lists}

\* TransactionRuleConfig records over the given field values
RuleConfigs(users, cats, ignores, patternLists) ==
    {[transaction_type |-> u, category |-> c, ignore |-> ig, patterns |-> ps] :
         u \in users, c \in cats, ig \in ignores, ps \in patternLists}

\* the transactions handed to categorize: account, name, source type, memo
Transactions(accounts, names, types, memos) ==
    {[account |-> a, name |-> n, transaction_type |-> t, memo |-> m] :
         a \in accounts, n \in names, t \in types, m \in memos}

Unbuilt ==
    [status |-> "unbuilt", error |-> [kind |-> "none", detail |-> NoneV],
     prefix_map |-> EmptyMap, source_type_map |-> EmptyMap, categories |-> {}]

-----------------------------------------------------------------------------
(* Actions of the categorizer *)

\* Categorizer::build(transaction_types, rules)
Build ==
    /\ categorizer.status = "unbuilt"
    /\ categorizer' = build(transaction_types, rules)
    /\ UNCHANGED <<transaction_types, rules, unknown_type_counts,
                   unknown_category_counts, transactions_left, history, transactions,
                   parserVars, loaderVars, readerVars, uiVars>>

CallRecord(revision, account, name, transaction_tye, memo, res) ==
    [revision |-> revision, account |-> account, name |-> name,
     transaction_tye |-> transaction_tye, memo |-> memo, result |-> res]

\* loader revision: categorizer.categorize(account, name, transaction_tye, memo)
Categorize ==
    /\ categorizer.status = "ok"
    /\ transactions_left > 0
    /\ \E t \in transactions :
           history' = Append(history,
                             CallRecord("loader", t.account, t.name, t.transaction_type,
                                        t.memo,
                                        categorize(categorizer, t.account, t.name,
                                                   t.transaction_type, t.memo)))
    /\ transactions_left' = transactions_left - 1
    /\ UNCHANGED <<transaction_types, rules, categorizer, unknown_type_counts,
                   unknown_category_counts, transactions, parserVars, loaderVars, readerVars, uiVars>>

\* importer revision: categorizer.categorize(account, name, transaction_tye, memo)
ImporterCategorize ==
    /\ categorizer.status = "ok"
    /\ transactions_left > 0
    /\ \E t \in transactions :
           LET r == importer_categorize(categorizer, t.account, t.name, t.transaction_type,
                                        t.memo, unknown_type_counts,
                                        unknown_category_counts)
           IN  /\ history' = Append(history,
                                    CallRecord("importer", t.account, t.name,
                                               t.transaction_type, t.memo, r.result))
               /\ unknown_type_counts' = r.unknown_type_counts
               /\ unknown_category_counts' = r.unknown_category_counts
    /\ transactions_left' = transactions_left - 1
    /\ UNCHANGED <<transaction_types, rules, categorizer, transactions, parserVars,
                   loaderVars, readerVars, uiVars>>

NextCategorizer == Build \/ Categorize \/ ImporterCategorize

-----------------------------------------------------------------------------
(* OFX schema parser: importer/qfx_file/mod.rs, DocumentParser.  The parser *)
(* reads the tokens of the lexer one at a time; a token is an OpenKey, a    *)
(* CloseKey or a Value.  The data of the lexer is the sequence of the       *)
(* tokens written in the file, and consumed the number of them it has read; *)
(* the lexer decides which of them it returns.  An error is the chain of    *)
(* its messages, outermost context first.                                   *)

OpenKey(key) == [kind |-> "OpenKey", text |-> key]

CloseKey(key) == [kind |-> "CloseKey", text |-> key]

Value(value) == [kind |-> "Value", text |-> value]

\* one message of an error chain: eyre!("<msg> '<arg>'")
E(msg, arg) == [msg |-> msg, arg |-> arg]

\* the outcome of a parsing function: the parser after it, and Ok(value) or Err
Ok(p, value) == [p |-> p, ok |-> TRUE, value |-> value, error |-> << >>]

Err(p, error) == [p |-> p, ok |-> FALSE, value |-> NoneV, error |-> error]

\* Lexer::new(data, string_encoding, hide_field_close)
Lexer_new(data, hide_field_close) ==
    [data |-> data,
     hide_field_close |-> hide_field_close,
     last_open |-> NoneV,
     consumed |-> 0,
     last_item_was_value |-> FALSE]

\* DocumentParser::new(lexer): the fields of the lexer and those of the parser
NewParser(lexer) ==
    lexer @@
    [local_timezone |-> NoneV,
     institution_message_response_name |-> NoneV,
     statement_transaction_response_name |-> NoneV,
     statement_response_name |-> NoneV,
     state |-> "NotStarted",
     read_sign_on_message_response |-> FALSE,
     read_transaction_id |-> FALSE,
     read_status |-> FALSE,
     read_currency |-> FALSE,
     read_account_from |-> FALSE,
     read_start_date |-> FALSE,
     read_end_date |-> FALSE,
     read_ledger_balance |-> FALSE,
     read_available_balance |-> FALSE]

\* `?` in a parsing function: the error returned as it is, or the rest of the
\* function on the value
AndThen(r, Rest(_)) == IF r.ok THEN Rest(r) ELSE r

\* any close key after a value hidden, whatever key it names
hide_any_name(p, token) ==
    /\ token.kind = "CloseKey"
    /\ p.hide_field_close
    /\ p.last_item_was_value

\* a close key is hidden when the lexer hides field closes, the last item was
\* a value and the close names the last open key
hide(p, token) ==
    /\ token.kind = "CloseKey"
    /\ p.hide_field_close
    /\ p.last_item_was_value
    /\ IsSome(p.last_open)
    /\ p.last_open = Some(token.text)

\* the lexer after a token is found: consumed is past it, an open key is
\* remembered, a close key forgets it, a value is noted as the last item
lexer_token(p, token) ==
    [p EXCEPT !.consumed = @ + 1,
              !.last_open = IF token.kind = "OpenKey" THEN Some(token.text)
                            ELSE IF token.kind = "CloseKey" THEN NoneV
                            ELSE @,
              !.last_item_was_value = (token.kind = "Value")]

\* Lexer::next: the next token, or None at the end of the data; the loop goes
\* on to the token after a close key that is hidden
RECURSIVE lexer_next(_)
lexer_next(p) ==
    IF p.consumed = Len(p.data)
    THEN Ok(p, NoneV)
    ELSE IF hide(p, p.data[p.consumed + 1])
    THEN lexer_next(lexer_token(p, p.data[p.consumed + 1]))
    ELSE Ok(lexer_token(p, p.data[p.consumed + 1]), Some(p.data[p.consumed + 1]))

\* the lexer hiding field closes when the file is SGML
load_hides_in_sgml(contents, xml) == NewParser(Lexer_new(contents, ~xml))

\* QfxReader::load: the lexer hides field closes when the file is XML
load(contents, xml) == NewParser(Lexer_new(contents, xml))

get_token(p) ==
    AndThen(lexer_next(p),
            LAMBDA r : IF IsSome(r.value) THEN Ok(r.p, Unwrap(r.value))
                       ELSE Err(r.p, <<E("Unexpected end of file", "")>>))

get_key(p) ==
    AndThen(get_token(p),
            LAMBDA r : IF r.value.kind = "OpenKey" THEN Ok(r.p, r.value.text)
                       ELSE Err(r.p, <<E("Expected key, got", r.value.text)>>))

\* Some(key) for an open key, None for the close key of struct_name
get_field(p, struct_name) ==
    AndThen(get_token(p),
            LAMBDA r : IF r.value.kind = "OpenKey" THEN Ok(r.p, Some(r.value.text))
                       ELSE IF r.value.kind = "CloseKey" /\ r.value.text = struct_name
                       THEN Ok(r.p, NoneV)
                       ELSE Err(r.p, <<E("Expected key, got", r.value.text)>>))

get_value(p) ==
    AndThen(get_token(p),
            LAMBDA r : IF r.value.kind = "Value" THEN Ok(r.p, r.value.text)
                       ELSE Err(r.p, <<E("Expected value, got", r.value.text)>>))

\* the end of the file taken for granted
expect_done_unchecked(p) == Ok(p, NoneV)

\* DocumentParser::expect_done: the lexer has no token left to return
expect_done(p) ==
    AndThen(lexer_next(p),
            LAMBDA r : IF IsSome(r.value)
                       THEN Err(r.p, <<E("Unexpected token at end of file",
                                         Unwrap(r.value).text)>>)
                       ELSE Ok(r.p, NoneV))

\* str::parse::<u32> on the values of the documents
U32Values == ("0" :> 0) @@ ("1001" :> 1001) @@ ("4242" :> 4242)

\* str::parse::<Decimal> on the values of the documents, in hundredths
DecimalValues == ("12.50" :> 1250) @@ ("-3.00" :> (0 - 300)) @@ ("0.00" :> 0)

\* what get_timestamp reads in the values of the documents: whether the value
\* ends with ']', the date and time before the '[' (None when it does not
\* parse as %Y%m%d%H%M%S%.f) and the hours of the timezone block
TimestampValues ==
    ("20240105120000[-5:EST]" :>
         [ends_with_bracket |-> TRUE, datetime |-> Some("2024-01-05 12:00:00"),
          offset_hours |-> Some(0 - 5)]) @@
    ("20240106093000" :>
         [ends_with_bracket |-> FALSE, datetime |-> Some("2024-01-06 09:30:00"),
          offset_hours |-> NoneV]) @@
    ("20240107[-5:EST]" :>
         [ends_with_bracket |-> TRUE, datetime |-> NoneV, offset_hours |-> Some(0 - 5)])

\* *Local::now().offset(), in hours
LocalOffset == 0 - 4

get_u32(p) ==
    AndThen(get_value(p),
            LAMBDA r : IF r.value \in DOMAIN U32Values THEN Ok(r.p, U32Values[r.value])
                       ELSE Err(r.p, <<E("Failed to parse u32 value", ""),
                                       E("invalid digit", r.value)>>))

get_decimal(p) ==
    AndThen(get_value(p),
            LAMBDA r : IF r.value \in DOMAIN DecimalValues
                       THEN Ok(r.p, DecimalValues[r.value])
                       ELSE Err(r.p, <<E("Failed to parse float value", ""),
                                       E("invalid decimal", r.value)>>))

\* the cached local offset, read from the clock the first time
get_local_time(p) ==
    IF IsSome(p.local_timezone) THEN Ok(p, Unwrap(p.local_timezone))
    ELSE Ok([p EXCEPT !.local_timezone = Some(LocalOffset)], LocalOffset)

\* the timestamp of a value of TimestampValues
timestamp_of(p, text, v) ==
    IF v.ends_with_bracket
    THEN IF ~IsSome(v.datetime)
         THEN Err(p, <<E("Failed to parse timestamp", ""), E("invalid date", text)>>)
         ELSE IF ~IsSome(v.offset_hours)
         THEN Err(p, <<E("Invalid timezone offset", ""), E("invalid digit", text)>>)
         ELSE Ok(p, [datetime |-> Unwrap(v.datetime), offset |-> Unwrap(v.offset_hours)])
    ELSE IF ~IsSome(v.datetime)
         THEN Err(p, <<E("Failed to parse naive date value", ""), E("invalid date", text)>>)
         ELSE AndThen(get_local_time(p),
                      LAMBDA l : Ok(l.p, [datetime |-> Unwrap(v.datetime),
                                          offset |-> l.value]))

get_timestamp(p) ==
    AndThen(get_value(p),
            LAMBDA r : IF r.value \notin DOMAIN TimestampValues
                       THEN Err(r.p, <<E("Failed to parse naive date value", ""),
                                       E("invalid date", r.value)>>)
                       ELSE timestamp_of(r.p, r.value, TimestampValues[r.value]))

get_timestamp_naive(p) ==
    AndThen(get_value(p),
            LAMBDA r : IF /\ r.value \in DOMAIN TimestampValues
                          /\ ~TimestampValues[r.value].ends_with_bracket
                          /\ IsSome(TimestampValues[r.value].datetime)
                       THEN Ok(r.p, Unwrap(TimestampValues[r.value].datetime))
                       ELSE Err(r.p, <<E("Failed to parse naive date value", ""),
                                       E("invalid date", r.value)>>))

get_severity(p) ==
    AndThen(get_value(p),
            LAMBDA r : IF r.value = "INFO" THEN Ok(r.p, "Info")
                       ELSE Err(r.p, <<E("Unexpected severity", r.value)>>))

check_currency(p) ==
    AndThen(get_value(p),
            LAMBDA r : IF r.value = "CAD" THEN Ok(r.p, NoneV)
                       ELSE Err(r.p, <<E("Unexpected currency", r.value)>>))

get_account_type(p) ==
    AndThen(get_value(p),
            LAMBDA r : IF r.value = "SAVINGS" THEN Ok(r.p, "Savings")
                       ELSE Err(r.p, <<E("Unexpected account type", r.value)>>))

QfxTransactionTypes ==
    ("DEBIT" :> "Debit") @@ ("CREDIT" :> "Credit") @@ ("POS" :> "Pos") @@
    ("ATM" :> "Atm") @@ ("FEE" :> "Fee") @@ ("OTHER" :> "Other")

get_transaction_type(p) ==
    AndThen(get_value(p),
            LAMBDA r : IF r.value \in DOMAIN QfxTransactionTypes
                       THEN Ok(r.p, QfxTransactionTypes[r.value])
                       ELSE Err(r.p, <<E("Unexpected transaction type", r.value)>>))

\* TrackLocalField for bool: set_with(struct_name, check), the flag being
\* membership of struct_name in the set of fields seen; check was evaluated,
\* and its tokens consumed, before the flag is looked at
set_with(seen, struct_name, check) ==
    IF check.ok /\ struct_name \notin seen
    THEN Ok(check.p, seen \cup {struct_name})
    ELSE IF check.ok
    THEN Err(check.p, <<E("Duplicate struct", struct_name)>>)
    ELSE IF struct_name \notin seen
    THEN Err(check.p, <<E("Failed to parse struct", struct_name)>> \o check.error)
    ELSE Err(check.p, <<E("Failed to parse duplicate struct", struct_name)>> \o check.error)

\* TrackLocalField for bool: ensure_field, for the required fields in order
ensure_fields(p, seen, required) ==
    LET missing == {i \in DOMAIN required : required[i] \notin seen} IN
    IF missing = {} THEN Ok(p, NoneV)
    ELSE Err(p, <<E("Missing field",
                    required[CHOOSE i \in missing : \A j \in missing : i <= j])>>)

\* TrackField for Cell<bool>: set_with on a copy, the cell written on success
cell_set_with(cell, struct_name, check) ==
    AndThen(set_with(IF check.p[cell] THEN {struct_name} ELSE {}, struct_name, check),
            LAMBDA r : Ok([r.p EXCEPT ![cell] = TRUE], NoneV))

\* PutOrElse for Option: the slot is looked at first, the value's error second
put_or_else(slot, name, value) ==
    IF IsSome(slot) THEN Err(value.p, <<E("Duplicate key", name)>>)
    ELSE IF ~value.ok THEN Err(value.p, <<E("Error parsing key", name)>> \o value.error)
    ELSE Ok(value.p, Some(value.value))

\* PutLocalOrElse for OnceCell: the value's error first, the cell second
cell_put_or_else(cell, name, value) ==
    IF ~value.ok THEN Err(value.p, <<E("Error parsing key", name)>> \o value.error)
    ELSE IF IsSome(value.p[cell]) THEN Err(value.p, <<E("Duplicate key", name)>>)
    ELSE Ok([value.p EXCEPT ![cell] = Some(value.value)], NoneV)

RECURSIVE check_child(_, _)

\* the loop of a check_* function: read the children of struct_name until its
\* close key, each child of children checked and marked seen; the fields seen
RECURSIVE read_children(_, _, _, _)
read_children(p, struct_name, children, seen) ==
    AndThen(get_field(p, struct_name),
            LAMBDA f :
                IF ~IsSome(f.value) THEN Ok(f.p, seen)
                ELSE IF Unwrap(f.value) \notin children
                THEN Err(f.p, <<E("Unexpected key", Unwrap(f.value))>>)
                ELSE AndThen(set_with(seen, Unwrap(f.value),
                                      check_child(f.p, Unwrap(f.value))),
                             LAMBDA s : read_children(s.p, struct_name, children,
                                                      s.value)))

\* a check_* function: its loop, then its ensure_field calls
check_struct(p, struct_name, children, required) ==
    AndThen(read_children(p, struct_name, children, {}),
            LAMBDA r : ensure_fields(r.p, r.value, required))

check_status(p) ==
    check_struct(p, "STATUS", {"CODE", "SEVERITY", "MESSAGE"}, <<"CODE", "SEVERITY">>)

check_financial_institution(p) ==
    check_struct(p, "FI", {"ORG", "FID"}, <<"ORG", "FID">>)

check_sign_on_response(p) ==
    check_struct(p, "SONRS",
                 {"STATUS", "DTSERVER", "LANGUAGE", "DTPROFUP", "FI", "INTU.BID"},
                 <<"STATUS", "DTSERVER", "LANGUAGE", "FI", "INTU.BID">>)

\* the flag of SONRS is reported under the name of the enclosing struct
check_sign_on_message_response_v1(p) ==
    AndThen(read_children(p, "SIGNONMSGSRSV1", {"SONRS"}, {}),
            LAMBDA r : ensure_fields(r.p,
                                     IF "SONRS" \in r.value THEN {"SIGNONMSGSRSV1"} ELSE {},
                                     <<"SIGNONMSGSRSV1">>))

check_account_from(p, struct_name) ==
    check_struct(p, struct_name, {"BANKID", "ACCTID", "ACCTTYPE"}, <<"ACCTID">>)

check_balance(p, struct_name) ==
    check_struct(p, struct_name, {"BALAMT", "DTASOF"}, <<"BALAMT", "DTASOF">>)

\* the check each child of a struct is given
check_child(p, key) ==
    CASE key \in {"CODE", "FID", "INTU.BID", "BANKID", "ACCTID"} -> get_u32(p)
      [] key \in {"MESSAGE", "LANGUAGE", "ORG"} -> get_value(p)
      [] key \in {"DTSERVER", "DTPROFUP", "DTASOF"} -> get_timestamp(p)
      [] key = "BALAMT" -> get_decimal(p)
      [] key = "SEVERITY" -> get_severity(p)
      [] key = "ACCTTYPE" -> get_account_type(p)
      [] key = "STATUS" -> check_status(p)
      [] key = "FI" -> check_financial_institution(p)
      [] key = "SONRS" -> check_sign_on_response(p)

\* get_account_to: ACCTID kept in an Option, so a second one is a duplicate key
RECURSIVE read_account_to(_, _)
read_account_to(p, account_id) ==
    AndThen(get_field(p, "CCACCTTO"),
            LAMBDA f :
                IF ~IsSome(f.value) THEN Ok(f.p, account_id)
                ELSE IF Unwrap(f.value) # "ACCTID"
                THEN Err(f.p, <<E("Unexpected key", Unwrap(f.value))>>)
                ELSE AndThen(put_or_else(account_id, "ACCTID", get_u32(f.p)),
                             LAMBDA s : read_account_to(s.p, s.value)))

get_account_to(p) ==
    AndThen(read_account_to(p, NoneV),
            LAMBDA r : IF ~IsSome(r.value) THEN Err(r.p, <<E("Missing key", "ACCTID")>>)
                       ELSE Ok(r.p, "AccountTo"))

\* the locals of next_statement_transaction, all None when a call starts
NoTransaction ==
    [transaction_type |-> NoneV, date_posted |-> NoneV, user_date |-> NoneV,
     amount |-> NoneV, transaction_id |-> NoneV, name |-> NoneV,
     account_to |-> NoneV, memo |-> NoneV]

\* what one turn of the loop of next_statement_transaction leaves: the
\* parser, the locals, and the value returned if the turn returns
Continue(p, t) == [done |-> FALSE, p |-> p, t |-> t, kind |-> "Continue",
                   value |-> NoneV, error |-> << >>]

ReturnSome(p, transaction) == [done |-> TRUE, p |-> p, t |-> NoTransaction, kind |-> "Some",
                               value |-> Some(transaction), error |-> << >>]

ReturnNone(p) == [done |-> TRUE, p |-> p, t |-> NoTransaction, kind |-> "None",
                  value |-> NoneV, error |-> << >>]

ReturnErr(p, error) == [done |-> TRUE, p |-> p, t |-> NoTransaction, kind |-> "Err",
                        value |-> NoneV, error |-> error]

\* `?` in next_statement_transaction: the error returned, or the rest of the arm
Try(r, Rest(_)) == IF r.ok THEN Rest(r) ELSE ReturnErr(r.p, r.error)

SetState(p, state) == [p EXCEPT !.state = state]

UnexpectedKey(p, key) == ReturnErr(p, <<E("Unexpected key for state", key)>>)

NotStarted(p, t) ==
    Try(get_key(p),
        LAMBDA r : IF r.value # "OFX" THEN UnexpectedKey(r.p, r.value)
                   ELSE Continue(SetState(r.p, "ReadOpen"), t))

\* a flag set with a check, then the next turn
Track(t, cell, struct_name, check) ==
    Try(cell_set_with(cell, struct_name, check), LAMBDA r : Continue(r.p, t))

\* put_or_else on a OnceCell of names, then the state it leads to
EnterStruct(p, t, cell, name, state) ==
    Try(cell_put_or_else(cell, name, Ok(p, name)),
        LAMBDA r : Continue(SetState(r.p, state), t))

ReadOpen(p, t) ==
    Try(get_field(p, "OFX"),
        LAMBDA f :
            CASE ~IsSome(f.value) ->
                     Try(expect_done(f.p), LAMBDA d : Continue(SetState(d.p, "ReadClose"), t))
              [] f.value = Some("SIGNONMSGSRSV1") ->
                     Track(t, "read_sign_on_message_response", "SIGNONMSGSRSV1",
                           check_sign_on_message_response_v1(f.p))
              [] f.value \in {Some("BANKMSGSRSV1"), Some("CREDITCARDMSGSRSV1")} ->
                     EnterStruct(f.p, t, "institution_message_response_name",
                                 Unwrap(f.value), "ReadInstitutionMessage")
              [] OTHER -> UnexpectedKey(f.p, Unwrap(f.value)))

ReadInstitutionMessage(p, t) ==
    IF ~IsSome(p.institution_message_response_name)
    THEN ReturnErr(p, <<E("Missing institution response in ReadInstitutionMessage state",
                          "")>>)
    ELSE Try(get_field(p, Unwrap(p.institution_message_response_name)),
             LAMBDA f :
                 CASE ~IsSome(f.value) -> Continue(SetState(f.p, "ReadOpen"), t)
                   [] f.value \in {Some("STMTTRNRS"), Some("CCSTMTTRNRS")} ->
                          EnterStruct(f.p, t, "statement_transaction_response_name",
                                      Unwrap(f.value), "ReadStatementTransactionResponse")
                   [] OTHER -> UnexpectedKey(f.p, Unwrap(f.value)))

ReadStatementTransactionResponse(p, t) ==
    IF ~IsSome(p.statement_transaction_response_name)
    THEN ReturnErr(p, <<E("Missing statement transaction response in ReadStatementTransactionRecord state",
                          "")>>)
    ELSE Try(get_field(p, Unwrap(p.statement_transaction_response_name)),
             LAMBDA f :
                 CASE ~IsSome(f.value) ->
                          Continue(SetState(f.p, "ReadInstitutionMessage"), t)
                   [] f.value = Some("TRNUID") ->
                          Track(t, "read_transaction_id", "TRNUID", get_u32(f.p))
                   [] f.value = Some("STATUS") ->
                          Track(t, "read_status", "STATUS", check_status(f.p))
                   [] f.value \in {Some("STMTRS"), Some("CCSTMTRS")} ->
                          EnterStruct(f.p, t, "statement_response_name", Unwrap(f.value),
                                      "ReadStatementResponse")
                   [] OTHER -> UnexpectedKey(f.p, Unwrap(f.value)))

ReadStatementResponse(p, t) ==
    IF ~IsSome(p.statement_response_name)
    THEN ReturnErr(p, <<E("Missing statement response in ReadStatementResponse state", "")>>)
    ELSE Try(get_field(p, Unwrap(p.statement_response_name)),
             LAMBDA f :
                 CASE ~IsSome(f.value) ->
                          Continue(SetState(f.p, "ReadStatementTransactionResponse"), t)
                   [] f.value = Some("CURDEF") ->
                          Track(t, "read_currency", "CURDEF", check_currency(f.p))
                   [] f.value \in {Some("BANKACCTFROM"), Some("CCACCTFROM")} ->
                          Track(t, "read_account_from", Unwrap(f.value),
                                check_account_from(f.p, Unwrap(f.value)))
                   [] f.value = Some("BANKTRANLIST") ->
                          Continue(SetState(f.p, "ReadTransactionList"), t)
                   [] f.value = Some("LEDGERBAL") ->
                          Track(t, "read_ledger_balance", "LEDGERBAL",
                                check_balance(f.p, "LEDGERBAL"))
                   [] f.value = Some("AVAILBAL") ->
                          Track(t, "read_available_balance", "AVAILBAL",
                                check_balance(f.p, "AVAILBAL"))
                   [] OTHER -> UnexpectedKey(f.p, Unwrap(f.value)))

\* the close of BANKTRANLIST taken for the end of the document
ReadTransactionList_ends_stream(p, t) ==
    Try(get_field(p, "BANKTRANLIST"),
        LAMBDA f :
            CASE ~IsSome(f.value) -> Continue(SetState(f.p, "ReadClose"), t)
              [] f.value = Some("DTSTART") ->
                     Track(t, "read_start_date", "DTSTART", get_timestamp(f.p))
              [] f.value = Some("DTEND") ->
                     Track(t, "read_end_date", "DTEND", get_timestamp(f.p))
              [] f.value = Some("STMTTRN") -> Continue(SetState(f.p, "ReadTransaction"), t)
              [] OTHER -> UnexpectedKey(f.p, Unwrap(f.value)))

ReadTransactionList(p, t) ==
    Try(get_field(p, "BANKTRANLIST"),
        LAMBDA f :
            CASE ~IsSome(f.value) -> Continue(SetState(f.p, "ReadStatementResponse"), t)
              [] f.value = Some("DTSTART") ->
                     Track(t, "read_start_date", "DTSTART", get_timestamp(f.p))
              [] f.value = Some("DTEND") ->
                     Track(t, "read_end_date", "DTEND", get_timestamp(f.p))
              [] f.value = Some("STMTTRN") -> Continue(SetState(f.p, "ReadTransaction"), t)
              [] OTHER -> UnexpectedKey(f.p, Unwrap(f.value)))

\* the local each key of STMTTRN is kept in
TransactionFields ==
    ("TRNTYPE" :> "transaction_type") @@ ("DTPOSTED" :> "date_posted") @@
    ("DTUSER" :> "user_date") @@ ("TRNAMT" :> "amount") @@
    ("FITID" :> "transaction_id") @@ ("NAME" :> "name") @@
    ("CCACCTTO" :> "account_to") @@ ("MEMO" :> "memo")

\* the value each key of STMTTRN is parsed to
transaction_value(p, key) ==
    CASE key = "TRNTYPE" -> get_transaction_type(p)
      [] key = "DTPOSTED" -> get_timestamp(p)
      [] key = "DTUSER" -> get_timestamp_naive(p)
      [] key = "TRNAMT" -> get_decimal(p)
      [] key \in {"FITID", "NAME", "MEMO"} -> get_value(p)
      [] key = "CCACCTTO" -> get_account_to(p)

\* the keys whose local is taken with ok_or_eyre("Missing key"), in order
RequiredKeys == <<"TRNTYPE", "DTPOSTED", "TRNAMT", "FITID", "NAME">>

\* the required keys, by position, whose local is None
missing_keys(t) ==
    {i \in DOMAIN RequiredKeys : ~IsSome(t[TransactionFields[RequiredKeys[i]]])}

\* StatementTransaction { .. } of the locals
StatementTransaction(t) ==
    [transaction_type |-> Unwrap(t.transaction_type),
     date_posted |-> Unwrap(t.date_posted),
     amount |-> Unwrap(t.amount),
     transaction_id |-> Unwrap(t.transaction_id),
     name |-> Unwrap(t.name),
     memo |-> t.memo]

\* the close of STMTTRN dropping a block that lacks a required key
finish_transaction_skips(p, t) ==
    IF missing_keys(t) # {}
    THEN Continue(SetState(p, "ReadTransactionList"), NoTransaction)
    ELSE ReturnSome(SetState(p, "ReadTransactionList"), StatementTransaction(t))

\* the close of STMTTRN: the transaction of the locals, or the first missing key
finish_transaction(p, t) ==
    IF missing_keys(t) # {}
    THEN ReturnErr(p, <<E("Missing key",
                          RequiredKeys[CHOOSE i \in missing_keys(t) :
                                           \A j \in missing_keys(t) : i <= j])>>)
    ELSE ReturnSome(SetState(p, "ReadTransactionList"), StatementTransaction(t))

ReadTransaction(p, t) ==
    Try(get_field(p, "STMTTRN"),
        LAMBDA f :
            IF ~IsSome(f.value) THEN finish_transaction(f.p, t)
            ELSE IF Unwrap(f.value) \notin DOMAIN TransactionFields
            THEN UnexpectedKey(f.p, Unwrap(f.value))
            ELSE Try(put_or_else(t[TransactionFields[Unwrap(f.value)]], Unwrap(f.value),
                                 transaction_value(f.p, Unwrap(f.value))),
                     LAMBDA r : Continue(r.p, [t EXCEPT ![TransactionFields[Unwrap(f.value)]]
                                                            = r.value])))

\* one turn of the loop: the arm of the current state
turn(p, t) ==
    CASE p.state = "NotStarted" -> NotStarted(p, t)
      [] p.state = "ReadOpen" -> ReadOpen(p, t)
      [] p.state = "ReadInstitutionMessage" -> ReadInstitutionMessage(p, t)
      [] p.state = "ReadStatementTransactionResponse" ->
             ReadStatementTransactionResponse(p, t)
      [] p.state = "ReadStatementResponse" -> ReadStatementResponse(p, t)
      [] p.state = "ReadTransactionList" -> ReadTransactionList(p, t)
      [] p.state = "ReadTransaction" -> ReadTransaction(p, t)
      [] p.state = "ReadClose" -> ReturnNone(p)

\* the loop, from the outcome of a turn on
RECURSIVE loop(_)
loop(s) == IF s.done THEN s ELSE loop(turn(s.p, s.t))

next_statement_transaction(p) == loop(Continue(p, NoTransaction))

\* the loop of QfxReader::load from the result of a call on: the transactions
\* returned until the end of the stream or the error that ends the loop
RECURSIVE read_transactions(_, _)
read_transactions(r, acc) ==
    IF r.kind = "Some"
    THEN read_transactions(next_statement_transaction(r.p), Append(acc, Unwrap(r.value)))
    ELSE [transactions |-> acc, failed |-> r.kind = "Err", error |-> r.error]

\* QfxReader::load of the contents of a file
load_transactions(contents, xml) ==
    read_transactions(next_statement_transaction(load(contents, xml)), << >>)

-----------------------------------------------------------------------------
(* Documents: the token sequences the parser is run on *)

MaxBlocks == 2

MaxEndOfStream == 2

Leaf(key, value) == <<OpenKey(key), Value(value)>>

Struct(key, body) == <<OpenKey(key)>> \o body \o <<CloseKey(key)>>

RECURSIVE Concat(_)
Concat(seqs) == IF seqs = << >> THEN << >> ELSE Head(seqs) \o Concat(Tail(seqs))

BlockIds == {1, 2}

\* the value a STMTTRN of the documents gives a key
FieldValue(key, id) ==
    CASE key = "TRNTYPE" -> <<"DEBIT", "CREDIT">>[id]
      [] key = "DTPOSTED" -> <<"20240105120000[-5:EST]", "20240106093000">>[id]
      [] key = "DTUSER" -> "20240106093000"
      [] key = "TRNAMT" -> <<"12.50", "-3.00">>[id]
      [] key = "FITID" -> <<"T1", "T2">>[id]
      [] key = "NAME" -> <<"COFFEE", "RENT">>[id]
      [] key = "MEMO" -> <<"beans", "march">>[id]

Field(key, id) ==
    IF key = "CCACCTTO" THEN Struct("CCACCTTO", Leaf("ACCTID", "4242"))
    ELSE Leaf(key, FieldValue(key, id))

\* the keys of a STMTTRN of the documents, in the order they are written:
\* complete blocks, blocks without one or two required keys, blocks without
\* the optional keys, and a block that repeats a key
BlockShapes ==
    {<<"TRNTYPE", "DTPOSTED", "DTUSER", "TRNAMT", "FITID", "NAME", "CCACCTTO", "MEMO">>,
     <<"TRNTYPE", "DTPOSTED", "TRNAMT", "FITID", "NAME">>,
     <<"NAME", "MEMO", "FITID", "TRNAMT", "DTPOSTED", "TRNTYPE">>,
     <<"DTPOSTED", "TRNAMT", "FITID", "NAME", "MEMO">>,
     <<"TRNTYPE", "TRNAMT", "FITID", "NAME", "MEMO">>,
     <<"TRNTYPE", "DTPOSTED", "FITID", "NAME", "MEMO">>,
     <<"TRNTYPE", "DTPOSTED", "TRNAMT", "NAME", "MEMO">>,
     <<"TRNTYPE", "DTPOSTED", "TRNAMT", "FITID", "MEMO">>,
     <<"TRNTYPE", "DTPOSTED", "FITID", "DTUSER">>,
     <<"DTUSER", "CCACCTTO", "MEMO">>,
     << >>,
     <<"TRNTYPE", "DTPOSTED", "TRNAMT", "TRNAMT", "FITID", "NAME">>}

\* every shape with the values of the first id, the complete shapes with the
\* values of the others too
Blocks ==
    {b \in [keys : BlockShapes, id : BlockIds] :
         b.id = 1 \/ \A k \in Range(RequiredKeys) : k \in Range(b.keys)}

BlockTokens(b) ==
    Struct("STMTTRN", Concat([i \in DOMAIN b.keys |-> Field(b.keys[i], b.id)]))

StatusTokens == Struct("STATUS", Leaf("CODE", "0") \o Leaf("SEVERITY", "INFO"))

SignOnTokens ==
    Struct("SIGNONMSGSRSV1",
           Struct("SONRS",
                  StatusTokens \o Leaf("DTSERVER", "20240105120000[-5:EST]")
                  \o Leaf("LANGUAGE", "ENG")
                  \o Struct("FI", Leaf("ORG", "BANK") \o Leaf("FID", "1001"))
                  \o Leaf("INTU.BID", "1001")))

Layouts == {"bank", "card", "split", "trailing", "truncated"}

\* one BANKTRANLIST holding every block, or (split) one BANKTRANLIST a block
TransactionLists(layout, blocks) ==
    LET list_dates == Leaf("DTSTART", "20240105120000[-5:EST]") \o Leaf("DTEND", "20240106093000")
    IN  IF layout = "split" /\ blocks # << >>
        THEN Concat([i \in DOMAIN blocks |->
                        Struct("BANKTRANLIST",
                               (IF i = 1 THEN list_dates ELSE << >>) \o BlockTokens(blocks[i]))])
        ELSE Struct("BANKTRANLIST",
                    list_dates \o Concat([i \in DOMAIN blocks |-> BlockTokens(blocks[i])]))

StatementTokens(layout, blocks) ==
    LET card == layout = "card" IN
    Struct(IF card THEN "CREDITCARDMSGSRSV1" ELSE "BANKMSGSRSV1",
           Struct(IF card THEN "CCSTMTTRNRS" ELSE "STMTTRNRS",
                  Leaf("TRNUID", "0") \o StatusTokens
                  \o Struct(IF card THEN "CCSTMTRS" ELSE "STMTRS",
                            Leaf("CURDEF", "CAD")
                            \o Struct(IF card THEN "CCACCTFROM" ELSE "BANKACCTFROM",
                                      Leaf("ACCTID", "4242"))
                            \o TransactionLists(layout, blocks)
                            \o Struct("LEDGERBAL",
                                      Leaf("BALAMT", "12.50")
                                      \o Leaf("DTASOF", "20240106093000")))))

\* a document of the layout; trailing: a token after </OFX>; truncated: the
\* data ends before </OFX>
Document(layout, blocks) ==
    LET ofx == Struct("OFX", SignOnTokens \o StatementTokens(layout, blocks)) IN
    CASE layout = "trailing" -> ofx \o <<Value("x")>>
      [] layout = "truncated" -> SubSeq(ofx, 1, Len(ofx) - 1)
      [] OTHER -> ofx

\* the complete layouts with up to MaxBlocks blocks, the others with at most one
Documents ==
    {Document(layout, blocks) : layout \in {"bank", "card", "split"},
                                blocks \in SeqsUpTo(Blocks, MaxBlocks)}
    \cup {Document(layout, blocks) : layout \in Layouts, blocks \in SeqsUpTo(Blocks, 1)}

\* the documents of up to one block
SmallDocuments ==
    {Document(layout, blocks) : layout \in Layouts, blocks \in SeqsUpTo(Blocks, 1)}

\* whether position i of the document is inside a STMTTRN block
InBlock(doc, i) ==
    \E k \in 1..(i - 1) :
        /\ doc[k] = OpenKey("STMTTRN")
        /\ \A l \in (k + 1)..(i - 1) : doc[l] # CloseKey("STMTTRN")

\* the tokens written for position i when the fields are written
\* <KEY>value</KEY>: the close key after the value of a field, for every field
\* of the document (scope "all") or for the fields of its STMTTRN blocks
\* (scope "STMTTRN")
ClosedToken(doc, scope, i) ==
    IF /\ doc[i].kind = "Value"
       /\ i > 1
       /\ doc[i - 1].kind = "OpenKey"
       /\ scope = "all" \/ (InBlock(doc, i - 1) /\ doc[i - 1].text # "ACCTID")
    THEN <<doc[i], CloseKey(doc[i - 1].text)>>
    ELSE <<doc[i]>>

\* the document from position lo to position hi with its fields closed
RECURSIVE CloseLeaves(_, _, _, _)
CloseLeaves(doc, scope, lo, hi) ==
    IF lo > hi THEN << >>
    ELSE IF lo = hi THEN ClosedToken(doc, scope, lo)
    ELSE CloseLeaves(doc, scope, lo, (lo + hi) \div 2)
         \o CloseLeaves(doc, scope, (lo + hi) \div 2 + 1, hi)

\* the first child named key after the first <parent>: the positions of its
\* first and of its last token
ChildSpan(doc, parent, key) ==
    LET first == CHOOSE i \in DOMAIN doc :
                     /\ doc[i] = OpenKey(key)
                     /\ \E k \in 1..(i - 1) : doc[k] = OpenKey(parent)
                     /\ \A j \in 1..(i - 1) :
                            doc[j] = OpenKey(key) => \A k \in 1..(j - 1) : doc[k] # OpenKey(parent)
    IN  [first |-> first,
         last |-> IF doc[first + 1].kind = "Value" THEN first + 1
                  ELSE CHOOSE j \in DOMAIN doc :
                           /\ j > first
                           /\ doc[j] = CloseKey(key)
                           /\ \A l \in (first + 1)..(j - 1) : doc[l] # CloseKey(key)]

\* the document without that child
Omit(doc, parent, key) ==
    LET c == ChildSpan(doc, parent, key) IN
    SubSeq(doc, 1, c.first - 1) \o SubSeq(doc, c.last + 1, Len(doc))

\* the document with that child written twice
Repeat(doc, parent, key) ==
    LET c == ChildSpan(doc, parent, key) IN
    SubSeq(doc, 1, c.last) \o SubSeq(doc, c.first, c.last)
    \o SubSeq(doc, c.last + 1, Len(doc))

\* the children the variants of a bank statement leave out or repeat: those
\* the states of next_statement_transaction read and some the check_*
\* functions read
VariedChildren ==
    {<<"OFX", "SIGNONMSGSRSV1">>, <<"OFX", "BANKMSGSRSV1">>,
     <<"BANKMSGSRSV1", "STMTTRNRS">>,
     <<"STMTTRNRS", "TRNUID">>, <<"STMTTRNRS", "STATUS">>, <<"STMTTRNRS", "STMTRS">>,
     <<"STMTRS", "CURDEF">>, <<"STMTRS", "BANKACCTFROM">>, <<"STMTRS", "BANKTRANLIST">>,
     <<"STMTRS", "LEDGERBAL">>, <<"STMTRS", "AVAILBAL">>,
     <<"BANKTRANLIST", "DTSTART">>, <<"BANKTRANLIST", "DTEND">>,
     <<"SIGNONMSGSRSV1", "SONRS">>, <<"SONRS", "LANGUAGE">>, <<"SONRS", "STATUS">>,
     <<"STATUS", "CODE">>, <<"LEDGERBAL", "BALAMT">>, <<"BANKACCTFROM", "ACCTID">>}

\* a bank statement with both balances, of no block,
\* of one and of two
FullStatements ==
    {LET doc == Document("bank", blocks)
         bal == ChildSpan(doc, "STMTRS", "LEDGERBAL")
     IN  SubSeq(doc, 1, bal.last)
         \o Struct("AVAILBAL", Leaf("BALAMT", "0.00") \o Leaf("DTASOF", "20240106093000"))
         \o SubSeq(doc, bal.last + 1, Len(doc)) :
     blocks \in {<< >>,
                 <<[keys |-> RequiredKeys, id |-> 1]>>,
                 <<[keys |-> RequiredKeys, id |-> 1], [keys |-> RequiredKeys, id |-> 2]>>}}

\* the bank statements that have the child
StatementsWith(c) ==
    {doc \in FullStatements \cup {Document("bank", << >>)} :
        \E i \in DOMAIN doc : doc[i] = OpenKey(c[2])}

Omitted == UNION {{Omit(doc, c[1], c[2]) : doc \in StatementsWith(c)} : c \in VariedChildren}

Repeated == UNION {{Repeat(doc, c[1], c[2]) : doc \in StatementsWith(c)} : c \in VariedChildren}

\* QfxReader after open: the contents and the dialect of the header.  The
\* documents as SGML files; the small ones as XML files, with and without the
\* closes of their fields, and as SGML files with them; the variants of the
\* bank statement as SGML files
Files ==
    [contents : Documents \cup Omitted \cup Repeated, is_xml : {FALSE}]
    \cup [contents : SmallDocuments, is_xml : {TRUE}]
    \cup [contents : {CloseLeaves(doc, scope, 1, Len(doc)) : doc \in SmallDocuments,
                                                             scope \in {"all", "STMTTRN"}},
          is_xml : BOOLEAN]

-----------------------------------------------------------------------------
(* Actions of the parser *)

\* the result of a call, and the number of tokens read when it returned
Returned(r) == [kind |-> r.kind, value |-> r.value, error |-> r.error,
                consumed |-> r.p.consumed]

EndsOfStream == Cardinality({i \in DOMAIN returns : returns[i].kind = "None"})

\* parser.next_statement_transaction(): the loop of QfxReader::load ends at the
\* first error; calls after the end of stream are the caller's to make
NextStatementTransaction ==
    /\ \A i \in DOMAIN returns : returns[i].kind # "Err"
    /\ EndsOfStream < MaxEndOfStream
    /\ \E r \in {next_statement_transaction(parser)} :
           /\ parser' = r.p
           /\ returns' = Append(returns, Returned(r))
    /\ UNCHANGED <<tokens, is_xml, emitted, catVars, loaderVars, readerVars, uiVars>>

NextParser == NextStatementTransaction

\* what a call of Lexer::next returned, and the tokens read when it returned
Emitted(r) == [token |-> r.value, consumed |-> r.p.consumed]

\* self.tokens.next(), until it returns None
LexerNext ==
    /\ IF emitted = << >> THEN TRUE ELSE IsSome(emitted[Len(emitted)].token)
    /\ \E r \in {lexer_next(parser)} :
           /\ parser' = r.p
           /\ emitted' = Append(emitted, Emitted(r))
    /\ UNCHANGED <<tokens, is_xml, returns, catVars, loaderVars, readerVars, uiVars>>

NextLexer == LexerNext

-----------------------------------------------------------------------------
(* The loader: src-tauri/src/loader/mod.rs.  load reads the configuration,  *)
(* builds the categorizer, then joins list_accounts, which walks the source *)
(* directories of the accounts and sends each file on a bounded channel,    *)
(* with import_files, which runs import_file on up to Concurrency files at  *)
(* a time.  The futures of one join run on one task: the code between two   *)
(* awaits is one step.  A date is the number of its day; a category is the  *)
(* sequence of its parts between the dots; an amount is a whole number of   *)
(* cents.  A table of the database is the set of its column names and the   *)
(* sequence of its rows, in the order of their rowids.                      *)

\* tokio::sync::mpsc::channel(8)
ChannelCapacity == 8

\* try_for_each_concurrent(8, ..)
Concurrency == 8

\* SqlitePoolOptions::new().min_connections(2).max_connections(8)
max_connections == 8

\* the days of the transactions
MaxDay == 3

NaiveDate_MIN == 0

NaiveDate_MAX == MaxDay + 1

\* entries the walker reads in all
MaxEntries == 2

\* files the walker sends in all
MaxFiles == 2

\* transactions the files yield in all
MaxRead == 2

Min(a, b) == IF a < b THEN a ELSE b

\* AtomicUsize::fetch_add that leaves the counter as it was
fetch_add_nothing(count, n) == count

\* AtomicUsize::fetch_add: the counter after the call
fetch_add(count, n) == count + n

Max(a, b) == IF a > b THEN a ELSE b

\* str::contains of a one-character pattern
contains(s, c) == \E i \in DOMAIN s : s[i] = c

\* category.split('.').next(): the first part of the category
base_category(category) == Head(category)

\* CREATE TABLE as SQLite reads it: definitions holds the words of each
\* comma-separated definition; the first word of a column definition names
\* the column, and a definition UNIQUE(column) constrains the column
Table(definitions) ==
    [columns |-> {definitions[i][1] : i \in {j \in DOMAIN definitions :
                                                 definitions[j][1] # "UNIQUE"}},
     unique |-> {definitions[i][2] : i \in {j \in DOMAIN definitions :
                                                definitions[j][1] = "UNIQUE"}},
     rows |-> << >>]

\* whether the row has the value of a row of the table in a unique column
sql_conflict(table, row) ==
    \E column \in table.unique \cap DOMAIN row : \E i \in DOMAIN table.rows :
        table.rows[i][column] = row[column]

\* an INSERT that puts the row before the rows of the table
sql_insert_first(table, row) ==
    IF DOMAIN row \subseteq table.columns /\ ~sql_conflict(table, row)
    THEN [ok |-> TRUE, table |-> [table EXCEPT !.rows = <<row>> \o @]]
    ELSE [ok |-> FALSE, table |-> table]

\* INSERT INTO table (the columns of row) values (..): fails on a column the
\* table does not have and on a value a unique column already holds
sql_insert(table, row) ==
    IF DOMAIN row \subseteq table.columns /\ ~sql_conflict(table, row)
    THEN [ok |-> TRUE, table |-> [table EXCEPT !.rows = Append(@, row)]]
    ELSE [ok |-> FALSE, table |-> table]

\* INSERT .. ON CONFLICT(column) DO NOTHING: a row that conflicts is left
\* out and the statement succeeds
sql_insert_or_nothing(table, row) ==
    IF DOMAIN row \subseteq table.columns /\ sql_conflict(table, row)
    THEN [ok |-> TRUE, table |-> table]
    ELSE sql_insert(table, row)

\* schema::accounts::init_table
accounts_init_table ==
    Table(<< <<"name", "TEXT", "NOT", "NULL">>, <<"UNIQUE", "name">> >>)

\* schema::categories::init_table
categories_init_table ==
    Table(<< <<"base_category", "TEXT", "NOT", "NULL">>,
             <<"category", "TEXT", "NOT", "NULL">>,
             <<"income", "INTEGER">> >>)

\* schema::dates::init_table
dates_init_table == Table(<< <<"date_str", "TEXT">> >>)

\* schema::transactions::init_table
transactions_init_table ==
    Table(<< <<"id", "INTEGER", "PRIMARY", "KEY">>,
             <<"account", "TEXT", "NOT", "NULL">>,
             <<"base_category", "TEXT", "NOT", "NULL">>,
             <<"category", "TEXT", "NOT", "NULL">>,
             <<"source_category", "TEXT">>,
             <<"income", "INTEGER">>,
             <<"transaction_type", "INTEGER">>,
             <<"date_str", "TEXT">>,
             <<"amount", "REAL">>,
             <<"transaction_id", "TEXT">>,
             <<"name", "TEXT", "NOT", "NULL">>,
             <<"memo", "TEXT">> >>)

\* schema::uncategorized_transactions::init_table: no comma is written between
\* "type INTEGER" and "text TEXT NOT NULL", which makes them one definition
uncategorized_transactions_init_table ==
    Table(<< <<"id", "INTEGER", "PRIMARY", "KEY">>,
             <<"missing_rule", "INTEGER">>,
             <<"account", "TEXT", "NOT", "NULL">>,
             <<"type", "INTEGER", "text", "TEXT", "NOT", "NULL">> >>)

\* Db::build: the five tables, empty
Db_build ==
    [accounts |-> accounts_init_table,
     categories |-> categories_init_table,
     dates |-> dates_init_table,
     transactions |-> transactions_init_table,
     uncategorized_transactions |-> uncategorized_transactions_init_table]

\* DbHandle::add_category
add_category(database, category) ==
    LET r == sql_insert(database.categories,
                        [base_category |-> category.base_category,
                         category |-> category.category,
                         income |-> category.income])
    IN  [ok |-> r.ok, db |-> [database EXCEPT !.categories = r.table]]

\* DbHandle::add_date
add_date(database, date) ==
    LET r == sql_insert(database.dates, [date_str |-> date])
    IN  [ok |-> r.ok, db |-> [database EXCEPT !.dates = r.table]]

\* try_add_account with a plain INSERT INTO accounts (name) values (?1)
try_add_account_plain_insert(database, name) ==
    LET r == sql_insert(database.accounts, [name |-> name])
    IN  [ok |-> r.ok, db |-> [database EXCEPT !.accounts = r.table]]

\* DbHandle::try_add_account: INSERT .. ON CONFLICT(name) DO NOTHING
try_add_account(database, name) ==
    LET r == sql_insert_or_nothing(database.accounts, [name |-> name])
    IN  [ok |-> r.ok, db |-> [database EXCEPT !.accounts = r.table]]

\* DbHandle::add_transaction
add_transaction(database, transaction) ==
    LET r == sql_insert(database.transactions,
                        [account |-> transaction.account,
                         base_category |-> transaction.base_category,
                         category |-> transaction.category,
                         source_category |-> transaction.source_category,
                         income |-> transaction.income,
                         transaction_type |-> transaction.transaction_type,
                         date_str |-> transaction.date,
                         amount |-> transaction.amount,
                         transaction_id |-> transaction.transaction_id,
                         name |-> transaction.name,
                         memo |-> transaction.memo])
    IN  [ok |-> r.ok, db |-> [database EXCEPT !.transactions = r.table]]

\* DbHandle::add_uncategorized_transaction of the value of an Uncategorized
add_uncategorized_transaction(database, status) ==
    LET row == IF status.kind = "MissingType"
               THEN [missing_rule |-> 0, account |-> status.value.account,
                     type |-> status.value.source_type, text |-> status.value.name]
               ELSE [missing_rule |-> 1, account |-> status.value.account,
                     type |-> status.value.transaction_type,
                     text |-> status.value.display]
        r == sql_insert(database.uncategorized_transactions, row)
    IN  [ok |-> r.ok, db |-> [database EXCEPT !.uncategorized_transactions = r.table]]

\* a future that is created and dropped without being awaited never runs:
\* the database stays as it was, whatever the future would have done
not_awaited(database, future) == database

\* the test of the multiline extra line: an id with a dot and a zero amount
is_extra_line(transaction) ==
    /\ IsSome(transaction.transaction_id)
    /\ contains(Unwrap(transaction.transaction_id), ".")
    /\ transaction.amount = 0

\* import_status with the dates tracked before the ignore flag is looked at
import_status_tracks_ignored(import, database, transaction, status) ==
    IF status.kind = "Err"
    THEN [ok |-> FALSE, error |-> status.value.error, import |-> import,
          db |-> database]
    ELSE IF status.kind # "Categorized"
    THEN LET r == add_uncategorized_transaction(database, status)
         IN  [ok |-> r.ok, error |-> "Failed to add uncategorized_transaction",
              import |-> import, db |-> r.db]
    ELSE LET tracked == [import EXCEPT
                             !.first_date = Min(@, transaction.date_posted),
                             !.last_date = Max(@, transaction.date_posted)]
         IN  IF status.value.ignore
             THEN [ok |-> TRUE, error |-> "", import |-> tracked, db |-> database]
             ELSE LET r == add_transaction(database,
                               [account |-> import.account_name,
                                base_category |-> base_category(status.value.category),
                                category |-> status.value.category,
                                source_category |-> transaction.category,
                                income |-> status.value.income,
                                transaction_type |-> transaction.transaction_type,
                                date |-> transaction.date_posted,
                                amount |-> transaction.amount,
                                transaction_id |-> transaction.transaction_id,
                                name |-> transaction.name,
                                memo |-> transaction.memo])
                  IN  [ok |-> r.ok, error |-> "Failed to add transaction",
                       import |-> tracked, db |-> r.db]

\* import_file from the call of categorize on, for a categorization status
import_status(import, database, transaction, status) ==
    IF status.kind = "Err"
    THEN [ok |-> FALSE, error |-> status.value.error, import |-> import,
          db |-> database]
    ELSE IF status.kind # "Categorized"
    THEN LET r == add_uncategorized_transaction(database, status)
         IN  [ok |-> r.ok, error |-> "Failed to add uncategorized_transaction",
              import |-> import, db |-> r.db]
    ELSE IF status.value.ignore
    THEN [ok |-> TRUE, error |-> "", import |-> import, db |-> database]
    ELSE LET r == add_transaction(database,
                      [account |-> import.account_name,
                       base_category |-> base_category(status.value.category),
                       category |-> status.value.category,
                       source_category |-> transaction.category,
                       income |-> status.value.income,
                       transaction_type |-> transaction.transaction_type,
                       date |-> transaction.date_posted,
                       amount |-> transaction.amount,
                       transaction_id |-> transaction.transaction_id,
                       name |-> transaction.name,
                       memo |-> transaction.memo])
         IN  [ok |-> r.ok, error |-> "Failed to add transaction",
              import |-> [import EXCEPT
                              !.first_date = Min(@, transaction.date_posted),
                              !.last_date = Max(@, transaction.date_posted)],
              db |-> r.db]

\* the body of the loop of import_file with the extra lines classified too
import_transaction_keeps_extra_lines(import, database, transaction, cat) ==
    LET r == import_status(import, database, transaction,
                           categorize(cat, import.account_name, transaction.name,
                                      transaction.transaction_type, transaction.memo))
    IN  [ok |-> r.ok, error |-> r.error, import |-> r.import, db |-> r.db,
         categorized |-> TRUE]

\* the body of the loop of import_file for one transaction of the file:
\* categorized tells whether the categorizer was called
import_transaction(import, database, transaction, cat) ==
    IF is_extra_line(transaction)
    THEN [ok |-> TRUE, error |-> "", import |-> import, db |-> database,
          categorized |-> FALSE]
    ELSE LET r == import_status(import, database, transaction,
                                categorize(cat, import.account_name, transaction.name,
                                           transaction.transaction_type,
                                           transaction.memo))
         IN  [ok |-> r.ok, error |-> r.error, import |-> r.import, db |-> r.db,
              categorized |-> TRUE]

\* the dates of the run taking the dates of the last file that completed
merge_dates_last_wins(run, first_date, last_date) == <<first_date, last_date>>

\* lock.0 = min(lock.0, fd); lock.1 = max(lock.1, ld)
merge_dates(run, first_date, last_date) ==
    <<Min(run[1], first_date), Max(run[2], last_date)>>

\* for d in first_date.iter_days() { if d > last_date { break; } .. }
date_range(first_date, last_date) ==
    {d \in first_date..NaiveDate_MAX : d <= last_date}

\* the orders in which the elements of a set can be visited
Orders(S) ==
    {order \in [1..Cardinality(S) -> S] : \A x \in S : \E i \in DOMAIN order : order[i] = x}

\* for (category, income) in categorizer.categories() { conn.add_category(..) }
\* for one order of the HashSet, from its i-th element on
RECURSIVE add_categories(_, _, _)
add_categories(database, order, i) ==
    IF i > Len(order) THEN [ok |-> TRUE, db |-> database]
    ELSE LET r == add_category(database,
                               [base_category |-> base_category(order[i][1]),
                                category |-> order[i][1], income |-> order[i][2]])
         IN  IF r.ok THEN add_categories(r.db, order, i + 1) ELSE r

-----------------------------------------------------------------------------
(* Inputs of the loader *)

\* config.account: name and source_path of each account
AccountConfigs ==
    {<< [name |-> "chequing", source_path |-> <<"chequing">>] >>,
     << [name |-> "chequing", source_path |-> <<"chequing">>],
        [name |-> "visa", source_path |-> <<"visa">>] >>}

\* config.transaction_type: names with the prefix A are purchases named by
\* what follows the prefix; the source type Debit is named by the memo
LoaderTypes ==
    << [mode |-> "Prefix", prefix |-> Some(<<"A">>), source_type |-> NoneV,
        transaction_type |-> "DebitPurchase", income |-> FALSE,
        name_source |-> "NameSuffix", accounts |-> <<"chequing">>],
       [mode |-> "SourceType", prefix |-> NoneV, source_type |-> Some("Debit"),
        transaction_type |-> "Interest", income |-> TRUE,
        name_source |-> "Memo", accounts |-> <<"chequing">>] >>

\* config.rule: B is food, C is an ignored fee
LoaderRules ==
    << [transaction_type |-> "DebitPurchase", category |-> <<"Food", "Out">>,
        ignore |-> FALSE, patterns |-> << <<"B">> >>],
       [transaction_type |-> "DebitPurchase", category |-> <<"Fees">>,
        ignore |-> TRUE, patterns |-> << <<"C">> >>],
       [transaction_type |-> "Interest", category |-> <<"Pay">>,
        ignore |-> FALSE, patterns |-> << <<"B">> >>] >>

\* the configurations: the rules above, and the same with the first rule
\* written twice, which build refuses
LoaderConfigs ==
    {[transaction_type |-> LoaderTypes, rule |-> LoaderRules, account |-> a] :
         a \in AccountConfigs}
    \cup {[transaction_type |-> LoaderTypes,
           rule |-> <<LoaderRules[1]>> \o LoaderRules,
           account |-> << [name |-> "chequing", source_path |-> <<"chequing">>] >>]}

FileTransaction(transaction_type, date_posted, amount, transaction_id, name) ==
    [transaction_type |-> transaction_type, date_posted |-> date_posted,
     amount |-> amount, transaction_id |-> transaction_id, category |-> NoneV,
     name |-> name, memo |-> NoneV]

\* the transactions the files hold: a purchase of food with and without an id,
\* with and without a dot in the id, of zero and of five dollars, on every
\* day; an ignored fee; a name with no rule; a name with no type; a Debit
\* without the memo that names it
FileTransactions ==
    {FileTransaction("Pos", 2, amount, id, <<"A", "B">>) :
         amount \in {0, 500},
         id \in {NoneV, Some(<<"X", "1">>), Some(<<"X", "1", ".", "2">>)}}
    \cup {FileTransaction("Pos", d, 500, Some(<<"X", "1">>), <<"A", "B">>) : d \in 1..MaxDay}
    \cup {FileTransaction("Pos", 1, 500, Some(<<"X", "1">>), <<"A", "C">>),
          FileTransaction("Pos", 1, 500, Some(<<"X", "1">>), <<"A">>),
          FileTransaction("Pos", 1, 500, Some(<<"X", "1">>), <<"B">>),
          FileTransaction("Debit", 1, 500, Some(<<"X", "1">>), <<"B">>)}

\* the ASCII letters, each capital at the place of its small letter
AsciiUpper ==
    <<"A", "B", "C", "D", "E", "F", "G", "H", "I", "J", "K", "L", "M",
      "N", "O", "P", "Q", "R", "S", "T", "U", "V", "W", "X", "Y", "Z">>

AsciiLower ==
    <<"a", "b", "c", "d", "e", "f", "g", "h", "i", "j", "k", "l", "m",
      "n", "o", "p", "q", "r", "s", "t", "u", "v", "w", "x", "y", "z">>

\* OsStr::to_ascii_lowercase that leaves the capitals as they are
to_ascii_lowercase_nothing(s) == s

\* OsStr::to_ascii_lowercase: each capital replaced by its small letter
to_ascii_lowercase(s) ==
    [i \in DOMAIN s |->
        IF \E k \in DOMAIN AsciiUpper : AsciiUpper[k] = s[i]
        THEN AsciiLower[CHOOSE k \in DOMAIN AsciiUpper : AsciiUpper[k] = s[i]]
        ELSE s[i]]

\* Path::extension of a file name: what follows the last dot, if the name has
\* a dot that is not its first character
extension(file_name) ==
    LET dots == {i \in DOMAIN file_name : i > 1 /\ file_name[i] = "."}
    IN  IF dots = {} THEN NoneV
        ELSE Some(SubSeq(file_name, (CHOOSE i \in dots : \A j \in dots : j <= i) + 1,
                         Len(file_name)))

\* the match of import_file on the lowered extension: the reader it opens
select_reader(ext) ==
    IF ext = <<"q", "f", "x">> THEN Some("qfx")
    ELSE IF ext = <<"c", "s", "v">> THEN Some("csv")
    ELSE NoneV

\* the names the n-th entry of a directory can have when it is a file: a QFX
\* file, a CSV file with a capital, a text file, a name without a dot, and a
\* name that starts with its only dot
FileNames(n) ==
    {<<ToString(n)>> \o suffix :
         suffix \in {<<".", "q", "f", "x">>, <<".", "C", "s", "v">>,
                     <<".", "t", "x", "t">>, << >>}}
    \cup {<<".", "q", "f", "x", ToString(n)>>}

\* the file every symbolic link to a file points to
LinkTarget == [dir |-> <<"target">>, name |-> <<"t", ".", "Q", "F", "X">>]

\* what the stream of an open file gives next: a transaction, the end of the
\* file, or an error of the reader
StreamItems ==
    {[kind |-> "Some", transaction |-> t] : t \in FileTransactions}
    \cup {[kind |-> "None"], [kind |-> "Err"]}

\* what read_dir.next_entry and the file type of the entry give: the end of
\* the directory, an error, or an entry that is a directory, a file, a
\* symbolic link to a file, to a directory or to neither, or something else
EntryKinds ==
    {"dir", "file", "symlink_file", "symlink_dir", "symlink_other", "other"}

-----------------------------------------------------------------------------
(* Actions of the loader *)

\* the futures of load are polled on after one of them has returned an error
Running_after_error == TRUE

\* load is being polled: no ? has returned an error and load has not returned
Running == load_result = "Pending"

\* load returns the error
Fails(message) ==
    /\ load_result' = "Err"
    /\ load_error' = Some(message)

\* an import_file future: the file it was given, the reader it has opened
\* and its two dates
NewImport(pair) ==
    [account_name |-> pair[1], file_path |-> pair[2], reader |-> NoneV,
     first_date |-> NaiveDate_MAX, last_date |-> NaiveDate_MIN]

\* the import_file futures that hold a handle of the pool
handles(running) ==
    BagCardinality([import \in {i \in DOMAIN running : IsSome(i.reader)} |->
                        running[import]])

\* Sender::send returns at once when the channel holds any number of messages
has_room_unbounded(queue) == TRUE

\* Sender::send returns once the channel has room for the message
has_room(queue) == Len(queue) < ChannelCapacity

\* import_files is awaited after list_accounts has returned
polled_after_walker(w) == w.done

\* try_join polls import_files along with list_accounts, whatever the walker
\* is waiting for
polled(w) == TRUE

\* try_join returns as soon as list_accounts has returned Ok
joined_after_walker(w, queue, running) == w.done

\* try_join returns Ok: list_accounts has returned Ok and dropped the sender,
\* the stream has ended and every import_file has returned Ok
joined(w, queue, running) ==
    /\ w.done
    /\ queue = << >>
    /\ running = EmptyBag

\* *state.step.lock() = LoadingConfig, then AppConfig::load(config_path)
LoadConfig ==
    /\ Running
    /\ load_pc = "start"
    /\ step' = "LoadingConfig"
    /\ \E ok \in BOOLEAN :
           IF ok
           THEN /\ load_pc' = "config"
                /\ UNCHANGED <<load_result, load_error>>
           ELSE /\ Fails("Failed to load config")
                /\ UNCHANGED load_pc
    /\ UNCHANGED <<total_count, loaded_count, walker, file_queue, imports, dates, db,
                   sent, completed, read, last, categorize_calls, config, file_system,
                   catVars, parserVars, readerVars, uiVars>>

\* *state.step.lock() = BuildingRules, then Categorizer::build
BuildRules ==
    /\ Running
    /\ load_pc = "config"
    /\ step' = "BuildingRules"
    /\ categorizer' = build(config.transaction_type, config.rule)
    /\ IF categorizer'.status = "ok"
       THEN /\ load_pc' = "rules"
            /\ UNCHANGED <<load_result, load_error>>
       ELSE /\ Fails("Failed to load transaction rules")
            /\ UNCHANGED load_pc
    /\ UNCHANGED <<total_count, loaded_count, walker, file_queue, imports, dates, db,
                   sent, completed, read, last, categorize_calls, config, file_system,
                   transaction_types, rules, unknown_type_counts,
                   unknown_category_counts, transactions_left, history, transactions,
                   parserVars, readerVars, uiVars>>

\* *state.step.lock() = LoadingFiles, the channel, and the join of the two
\* futures polled for the first time
LoadingFiles ==
    /\ Running
    /\ load_pc = "rules"
    /\ step' = "LoadingFiles"
    /\ load_pc' = "files"
    /\ UNCHANGED <<load_result, load_error, total_count, loaded_count, walker,
                   file_queue, imports, dates, db, sent, completed, read, last,
                   categorize_calls, config, file_system, catVars, parserVars, readerVars, uiVars>>

Walking ==
    /\ Running
    /\ load_pc = "files"
    /\ ~walker.done

loaderData == <<dates, db, completed, read, last, categorize_calls, config,
                file_system, catVars, parserVars, readerVars, uiVars>>

\* list_accounts: for account in accounts { stack.push(source_path) .. }, and
\* Ok(()) after the last account, which drops the sender
NextAccount ==
    /\ Walking
    /\ walker.stack = << >> /\ ~IsSome(walker.dir) /\ ~IsSome(walker.sending)
    /\ walker' = IF walker.account = Len(config.account)
                 THEN [walker EXCEPT !.done = TRUE]
                 ELSE [walker EXCEPT
                           !.account = @ + 1,
                           !.stack = <<config.account[walker.account + 1].source_path>>]
    /\ UNCHANGED <<step, load_pc, load_result, load_error, total_count, loaded_count,
                   file_queue, imports, sent, loaderData>>

\* list_accounts: while let Some(dir) = stack.pop() { read_dir(dir).await? .. }
ReadDir ==
    /\ Walking
    /\ walker.stack # << >> /\ ~IsSome(walker.dir) /\ ~IsSome(walker.sending)
    /\ \E ok \in BOOLEAN :
           IF ok
           THEN /\ walker' = [walker EXCEPT
                                  !.dir = Some(walker.stack[Len(walker.stack)]),
                                  !.stack = SubSeq(@, 1, Len(@) - 1)]
                /\ UNCHANGED <<load_result, load_error>>
           ELSE /\ Fails("read_dir")
                /\ UNCHANGED walker
    /\ UNCHANGED <<step, load_pc, total_count, loaded_count, file_queue, imports, sent,
                   loaderData>>

\* walk_entry with every file sent under the name of one account
walk_entry_one_name(w, account_name, dir, kind, n, name) ==
    LET seen == [w EXCEPT !.entries = n] IN
    IF kind \in {"dir", "symlink_dir"}
    THEN [seen EXCEPT !.stack = Append(@, Append(dir, ToString(n)))]
    ELSE IF kind = "file"
    THEN [seen EXCEPT !.sending = Some(<<"chequing", [dir |-> dir, name |-> name]>>)]
    ELSE IF kind = "symlink_file"
    THEN [seen EXCEPT !.sending = Some(<<"chequing", LinkTarget>>)]
    ELSE seen

\* the walker after an entry of the kind, the n-th it reads, in directory
\* dir; a file has the name, a link to a file leads to LinkTarget
walk_entry(w, account_name, dir, kind, n, name) ==
    LET seen == [w EXCEPT !.entries = n] IN
    IF kind \in {"dir", "symlink_dir"}
    THEN [seen EXCEPT !.stack = Append(@, Append(dir, ToString(n)))]
    ELSE IF kind = "file"
    THEN [seen EXCEPT !.sending = Some(<<account_name, [dir |-> dir, name |-> name]>>)]
    ELSE IF kind = "symlink_file"
    THEN [seen EXCEPT !.sending = Some(<<account_name, LinkTarget>>)]
    ELSE seen

\* list_accounts: read_dir.next_entry().await?, the type of the entry, and
\* total_count.fetch_add(1) before the send of a file
NextEntry ==
    /\ Walking
    /\ IsSome(walker.dir) /\ ~IsSome(walker.sending)
    /\ \E result \in {"None", "Err"} \cup file_system.kinds :
           IF result = "None"
           THEN /\ walker' = [walker EXCEPT !.dir = NoneV]
                /\ UNCHANGED <<load_result, load_error, total_count>>
           ELSE IF result = "Err"
           THEN /\ Fails("next_entry")
                /\ UNCHANGED <<walker, total_count>>
           ELSE /\ walker.entries < file_system.entries
                /\ result \in {"file", "symlink_file"} => total_count < file_system.files
                /\ \E name \in IF result = "file" THEN FileNames(walker.entries + 1)
                               ELSE {LinkTarget.name} :
                       walker' = walk_entry(walker, config.account[walker.account].name,
                                            Unwrap(walker.dir), result,
                                            walker.entries + 1, name)
                /\ total_count' = IF IsSome(walker'.sending)
                                  THEN fetch_add(total_count, 1) ELSE total_count
                /\ UNCHANGED <<load_result, load_error>>
    /\ UNCHANGED <<step, load_pc, loaded_count, file_queue, imports, sent, loaderData>>

\* list_accounts: file_queue.send((account.name.clone(), path)).await? when
\* the channel has room
Send ==
    /\ Walking
    /\ IsSome(walker.sending)
    /\ has_room(file_queue)
    /\ file_queue' = Append(file_queue, Unwrap(walker.sending))
    /\ sent' = Append(sent, Unwrap(walker.sending))
    /\ walker' = [walker EXCEPT !.sending = NoneV]
    /\ UNCHANGED <<step, load_pc, load_result, load_error, total_count, loaded_count,
                   imports, loaderData>>

Importing ==
    /\ Running
    /\ load_pc = "files"

\* import_files: the stream gives the next pair and try_for_each_concurrent
\* starts import_file on it, while fewer than Concurrency are running
Receive ==
    /\ Importing
    /\ polled(walker)
    /\ file_queue # << >>
    /\ BagCardinality(imports) < Concurrency
    /\ imports' = imports (+) SetToBag({NewImport(Head(file_queue))})
    /\ file_queue' = Tail(file_queue)
    /\ UNCHANGED <<step, load_pc, load_result, load_error, total_count, loaded_count,
                   walker, sent, loaderData>>

\* import_file up to its loop: the extension of the path, the reader the
\* match selects, which opens the file or fails, and try_add_account on the
\* handle
open_file(import, database, opens) ==
    LET ext == extension(import.file_path.name) IN
    IF ~IsSome(ext)
    THEN [ok |-> FALSE, error |-> "File missing extension", import |-> import,
          db |-> database]
    ELSE LET reader == select_reader(to_ascii_lowercase(Unwrap(ext))) IN
         IF ~IsSome(reader)
         THEN [ok |-> FALSE, error |-> "Unrecognized file type", import |-> import,
               db |-> database]
         ELSE IF ~opens
         THEN [ok |-> FALSE, error |-> "Failed to open file", import |-> import,
               db |-> database]
         ELSE LET r == try_add_account(database, import.account_name) IN
              IF r.ok
              THEN [ok |-> TRUE, error |-> "", db |-> r.db,
                    import |-> [import EXCEPT !.reader = reader]]
              ELSE [ok |-> FALSE, error |-> "Failed to add account", import |-> import,
                    db |-> database]

\* import_file up to its loop, once the pool has a handle left
OpenFile ==
    /\ Importing
    /\ handles(imports) < max_connections
    /\ \E import \in BagToSet(imports) : \E opens \in BOOLEAN :
           /\ ~IsSome(import.reader)
           /\ \E r \in {open_file(import, db, opens)} :
                  IF r.ok
                  THEN /\ imports' = (imports (-) SetToBag({import}))
                                     (+) SetToBag({r.import})
                       /\ db' = r.db
                       /\ UNCHANGED <<load_result, load_error>>
                  ELSE /\ Fails(r.error)
                       /\ UNCHANGED <<imports, db>>
    /\ UNCHANGED <<step, load_pc, total_count, loaded_count, walker, file_queue, dates,
                   sent, completed, read, last, categorize_calls, config, file_system,
                   catVars, parserVars, readerVars, uiVars>>

\* import_file: transactions.try_next().await? and the body of the loop for a
\* transaction; at the end of the file import_file returns its dates, and
\* import_files merges them and counts the file
ImportTransaction ==
    /\ Importing
    /\ \E import \in BagToSet(imports) : \E item \in StreamItems :
           /\ IsSome(import.reader)
           /\ IF item.kind = "Some"
              THEN /\ read < file_system.transactions
                   /\ \E r \in {import_transaction(import, db, item.transaction, categorizer)} :
                          /\ db' = r.db
                          /\ categorize_calls' = IF r.categorized THEN categorize_calls + 1
                                                 ELSE categorize_calls
                          /\ IF r.ok
                             THEN /\ imports' = (imports (-) SetToBag({import}))
                                                (+) SetToBag({r.import})
                                  /\ UNCHANGED <<load_result, load_error>>
                             ELSE /\ Fails(r.error)
                                  /\ UNCHANGED imports
                   /\ read' = read + 1
                   /\ last' = Some([account |-> import.account_name,
                                    file_path |-> import.file_path,
                                    transaction |-> item.transaction])
                   /\ UNCHANGED <<dates, loaded_count, completed>>
              ELSE IF item.kind = "None"
              THEN /\ imports' = imports (-) SetToBag({import})
                   /\ dates' = merge_dates(dates, import.first_date, import.last_date)
                   /\ loaded_count' = fetch_add(loaded_count, 1)
                   /\ completed' = Append(completed, import.file_path)
                   /\ UNCHANGED <<db, load_result, load_error, read, last,
                                  categorize_calls>>
              ELSE /\ Fails("Failed to read transactions")
                   /\ UNCHANGED <<imports, db, dates, loaded_count, completed, read, last,
                                  categorize_calls>>
    /\ UNCHANGED <<step, load_pc, total_count, walker, file_queue, sent, config,
                   file_system, catVars, parserVars, readerVars, uiVars>>

\* load after the join: both futures returned Ok; the handle and the rows of
\* the categories
AddCategories ==
    /\ Running
    /\ load_pc = "files"
    /\ joined(walker, file_queue, imports)
    /\ \E order \in Orders(categorizer.categories) :
           \E r \in {add_categories(db, order, 1)} :
               /\ db' = r.db
               /\ IF r.ok
                  THEN /\ load_pc' = "categories"
                       /\ UNCHANGED <<load_result, load_error>>
                  ELSE /\ Fails("Failed to add category")
                       /\ UNCHANGED load_pc
    /\ UNCHANGED <<step, total_count, loaded_count, walker, file_queue, imports, dates,
                   sent, completed, read, last, categorize_calls, config, file_system,
                   catVars, parserVars, readerVars, uiVars>>

\* the rows of the dates from day d to the last of the range, each added by a
\* call of add_date that is not awaited
RECURSIVE fill_date_range(_, _, _)
fill_date_range(database, d, last_date) ==
    IF d \notin date_range(d, last_date) THEN database
    ELSE fill_date_range(not_awaited(database, add_date(database, d)), d + 1, last_date)

\* load: for d in first_date.iter_days() { .. conn.add_date(d); }
FillDateRange ==
    /\ Running
    /\ load_pc = "categories"
    /\ db' = fill_date_range(db, dates[1], dates[2])
    /\ load_pc' = "dates"
    /\ UNCHANGED <<step, load_result, load_error, total_count, loaded_count, walker,
                   file_queue, imports, dates, sent, completed, read, last,
                   categorize_calls, config, file_system, catVars, parserVars, readerVars, uiVars>>

\* Done that clears the two counters
Done_clears_counts ==
    /\ Running
    /\ load_pc = "dates"
    /\ step' = "Done"
    /\ load_pc' = "done"
    /\ load_result' = "Ok"
    /\ total_count' = 0
    /\ loaded_count' = 0
    /\ UNCHANGED <<load_error, walker, file_queue, imports,
                   dates, db, sent, completed, read, last, categorize_calls, config,
                   file_system, catVars, parserVars, readerVars, uiVars>>

\* load: *state.step.lock() = Done; Ok(())
Done ==
    /\ Running
    /\ load_pc = "dates"
    /\ step' = "Done"
    /\ load_pc' = "done"
    /\ load_result' = "Ok"
    /\ UNCHANGED <<load_error, total_count, loaded_count, walker, file_queue, imports,
                   dates, db, sent, completed, read, last, categorize_calls, config,
                   file_system, catVars, parserVars, readerVars, uiVars>>

NextLoader ==
    \/ LoadConfig
    \/ BuildRules
    \/ LoadingFiles
    \/ NextAccount
    \/ ReadDir
    \/ NextEntry
    \/ Send
    \/ Receive
    \/ OpenFile
    \/ ImportTransaction
    \/ AddCategories
    \/ FillDateRange
    \/ Done

-----------------------------------------------------------------------------
(* read_sgml_header (qfx_file/header.rs) and the check of QfxReader::open. *)
(* A line is the sequence of the characters read_until returned.           *)

\* u8::is_ascii_whitespace
is_ascii_whitespace(c) == c \in {" ", "\t", "\n", "\f", "\r"}

\* <[u8]>::trim_ascii
trim_ascii(bytes) ==
    LET kept == {i \in DOMAIN bytes : ~is_ascii_whitespace(bytes[i])}
    IN  IF kept = {} THEN << >>
        ELSE SubSeq(bytes, CHOOSE i \in kept : \A j \in kept : i <= j,
                    CHOOSE i \in kept : \A j \in kept : j <= i)

\* slice.split(|v| *v == c): the parts between the occurrences of c
RECURSIVE split(_, _)
split(bytes, c) ==
    IF \A i \in DOMAIN bytes : bytes[i] # c THEN <<bytes>>
    ELSE LET first == CHOOSE i \in DOMAIN bytes :
                          bytes[i] = c /\ \A j \in 1..(i - 1) : bytes[j] # c
         IN  <<SubSeq(bytes, 1, first - 1)>>
             \o split(SubSeq(bytes, first + 1, Len(bytes)), c)

Digits == <<"0", "1", "2", "3", "4", "5", "6", "7", "8", "9">>

\* u32::MAX, as its digits
u32_MAX == <<"4", "2", "9", "4", "9", "6", "7", "2", "9", "5">>

\* the digits without the zeros before the first digit that counts
RECURSIVE strip_zeros(_)
strip_zeros(digits) ==
    IF Len(digits) > 1 /\ Head(digits) = "0" THEN strip_zeros(Tail(digits)) ELSE digits

DigitOf(c) == CHOOSE d \in 0..9 : Digits[d + 1] = c

\* a number of as many digits as another is no greater than it
digits_le(a, b) ==
    \/ a = b
    \/ \E i \in DOMAIN a :
           /\ SubSeq(a, 1, i - 1) = SubSeq(b, 1, i - 1)
           /\ DigitOf(a[i]) < DigitOf(b[i])

\* str::parse::<u32>: an optional + and one digit or more, of a number that
\* fits 32 bits; the number is kept as its digits without leading zeros
parse_u32(value) ==
    LET digits == IF value # << >> /\ Head(value) = "+" THEN Tail(value) ELSE value IN
    IF digits = << >> \/ \E i \in DOMAIN digits : digits[i] \notin Range(Digits)
    THEN NoneV
    ELSE LET number == strip_zeros(digits) IN
         IF \/ Len(number) > Len(u32_MAX)
            \/ Len(number) = Len(u32_MAX) /\ ~digits_le(number, u32_MAX)
         THEN NoneV
         ELSE Some(number)

OFXHEADER == <<"O", "F", "X", "H", "E", "A", "D", "E", "R">>

DATA == <<"D", "A", "T", "A">>

VERSION == <<"V", "E", "R", "S", "I", "O", "N">>

SECURITY == <<"S", "E", "C", "U", "R", "I", "T", "Y">>

ENCODING == <<"E", "N", "C", "O", "D", "I", "N", "G">>

CHARSET == <<"C", "H", "A", "R", "S", "E", "T">>

COMPRESSION == <<"C", "O", "M", "P", "R", "E", "S", "S", "I", "O", "N">>

OLDFILEUID == <<"O", "L", "D", "F", "I", "L", "E", "U", "I", "D">>

NEWFILEUID == <<"N", "E", "W", "F", "I", "L", "E", "U", "I", "D">>

OFXSGML == <<"O", "F", "X", "S", "G", "M", "L">>

NONE == <<"N", "O", "N", "E">>

USASCII == <<"U", "S", "A", "S", "C", "I", "I">>

\* the locals of read_sgml_header before its loop
NewHeader ==
    [ofxheader |-> NoneV, data |-> FALSE, version |-> NoneV, security |-> FALSE,
     encoding |-> FALSE, charset |-> NoneV, compression |-> FALSE,
     oldfileuid |-> FALSE, newfileuid |-> FALSE,
     line |-> NoneV, result |-> NoneV, open |-> NoneV]

HeaderErr(h, message) == [h EXCEPT !.result = Some([ok |-> FALSE, error |-> message])]

\* a header line of a flag that may be given again
flag_line_again(h, name, value, accepted) ==
    IF value = accepted THEN [h EXCEPT ![name] = TRUE]
    ELSE HeaderErr(h, "Unrecognized value")

\* if flag { bail!("Repeated header") } match value { accepted => flag = true,
\* v => bail!("Unrecognized value") }
flag_line(h, name, value, accepted) ==
    IF h[name] THEN HeaderErr(h, "Repeated header")
    ELSE IF value = accepted THEN [h EXCEPT ![name] = TRUE]
    ELSE HeaderErr(h, "Unrecognized value")

\* the value parsed as a u32, and if local.replace(parsed).is_some() { bail! }
number_line(h, name, value) ==
    LET parsed == parse_u32(value) IN
    IF ~IsSome(parsed) THEN HeaderErr(h, "Failed to parse")
    ELSE IF IsSome(h[name]) THEN HeaderErr(h, "Repeated header")
    ELSE [h EXCEPT ![name] = parsed]

\* the match on the value of CHARSET, then charset.replace(parsed)
charset_line(h, value) ==
    IF value # <<"1", "2", "5", "2">> THEN HeaderErr(h, "Unrecognized value")
    ELSE IF IsSome(h.charset) THEN HeaderErr(h, "Repeated header")
    ELSE [h EXCEPT !.charset = Some("Windows1252")]

\* read_sgml_header after its loop: the checks of the nine locals
finish_header(h) ==
    IF ~h.data THEN HeaderErr(h, "Header 'DATA' missing")
    ELSE IF ~h.security THEN HeaderErr(h, "Header 'SECURITY' missing")
    ELSE IF ~h.encoding THEN HeaderErr(h, "Header 'ENCODING' missing")
    ELSE IF ~h.compression THEN HeaderErr(h, "Header 'COMPRESSION' missing")
    ELSE IF ~h.oldfileuid THEN HeaderErr(h, "Header 'OLDFILEUID' missing")
    ELSE IF ~h.newfileuid THEN HeaderErr(h, "Header 'NEWFILEUID' missing")
    ELSE IF ~IsSome(h.ofxheader) THEN HeaderErr(h, "Header 'OFXHEADER' missing")
    ELSE IF ~IsSome(h.version) THEN HeaderErr(h, "Header 'VERSION' missing")
    ELSE IF ~IsSome(h.charset) THEN HeaderErr(h, "Header 'CHARSET' missing")
    ELSE [h EXCEPT !.result = Some([ok |-> TRUE, ofxheader |-> Unwrap(h.ofxheader),
                                    version |-> Unwrap(h.version),
                                    encoding |-> Unwrap(h.charset)])]

\* the match on the key of a line that has a colon
match_key(h, key, value) ==
    IF key = OFXHEADER THEN number_line(h, "ofxheader", value)
    ELSE IF key = DATA THEN flag_line(h, "data", value, OFXSGML)
    ELSE IF key = VERSION THEN number_line(h, "version", value)
    ELSE IF key = SECURITY THEN flag_line(h, "security", value, NONE)
    ELSE IF key = ENCODING THEN flag_line(h, "encoding", value, USASCII)
    ELSE IF key = CHARSET THEN charset_line(h, value)
    ELSE IF key = COMPRESSION THEN flag_line(h, "compression", value, NONE)
    ELSE IF key = OLDFILEUID THEN flag_line(h, "oldfileuid", value, NONE)
    ELSE IF key = NEWFILEUID THEN flag_line(h, "newfileuid", value, NONE)
    ELSE HeaderErr(h, "Unrecognized header")

\* one turn of the loop of read_sgml_header on the line read_until returned,
\* empty at the end of the input; an empty line leaves the loop
read_header_line(h, line_buf) ==
    LET trimmed == trim_ascii(line_buf)
        parts == split(trimmed, ":")
        seen == [h EXCEPT !.line = Some(line_buf)]
    IN  IF trimmed = << >> THEN finish_header(seen)
        ELSE IF Len(parts) < 2 THEN HeaderErr(seen, "Header line missing colon")
        ELSE match_key(seen, parts[1], parts[2])

\* QfxReader::open after read_sgml_header: its error, or the two checks
open_header(result) ==
    IF ~result.ok THEN [ok |-> FALSE, error |-> "Failed to read header"]
    ELSE IF result.ofxheader # <<"1", "0", "0">>
    THEN [ok |-> FALSE, error |-> "Unsupported header"]
    ELSE IF result.version # <<"1", "0", "2">>
    THEN [ok |-> FALSE, error |-> "Unsupported version"]
    ELSE [ok |-> TRUE, encoding |-> result.encoding]

\* a line of a header: the key, a colon, the value and the end of the line
HeaderLine(key, value) == key \o <<":">> \o value \o <<"\r", "\n">>

\* the lines of the files: each key with its accepted value and with another;
\* the two numbers written as the accepted one, with a sign, as another
\* number, as no number and as a number of more than 32 bits; a third part
\* after the value; spaces before the key; a key in small letters, an unknown
\* key, a line with no colon; the empty line, and nothing at the end of the
\* input
HeaderLines ==
    {HeaderLine(OFXHEADER, v) :
         v \in {<<"1", "0", "0">>, <<"+", "0", "1", "0", "0">>, <<"2", "0", "0">>,
                <<"1", "x">>, <<"9", "9", "9", "9", "9", "9", "9", "9", "9", "9">>}}
    \cup {HeaderLine(VERSION, v) : v \in {<<"1", "0", "2">>, <<"1", "0", "3">>, << >>}}
    \cup {HeaderLine(DATA, v) : v \in {OFXSGML, NONE}}
    \cup {HeaderLine(SECURITY, v) : v \in {NONE, USASCII}}
    \cup {HeaderLine(ENCODING, v) : v \in {USASCII, NONE}}
    \cup {HeaderLine(CHARSET, v) : v \in {<<"1", "2", "5", "2">>, NONE}}
    \cup {HeaderLine(k, v) : k \in {COMPRESSION, OLDFILEUID, NEWFILEUID},
                             v \in {NONE, <<"1">>}}
    \cup {HeaderLine(DATA, OFXSGML \o <<":", "x">>),
          <<" ", " ">> \o HeaderLine(SECURITY, NONE),
          HeaderLine(<<"d", "a", "t", "a">>, OFXSGML),
          HeaderLine(<<"X">>, NONE),
          DATA \o <<"\n">>,
          <<"\r", "\n">>,
          << >>}

\* read_sgml_header: read_until and one turn of the loop
ReadHeaderLine ==
    /\ header.result = NoneV
    /\ \E line_buf \in HeaderLines : header' = read_header_line(header, line_buf)
    /\ UNCHANGED <<bytes_lexer, lexed, catVars, parserVars, loaderVars, uiVars>>

\* QfxReader::open: what it makes of the result of read_sgml_header
OpenHeader ==
    /\ header.result # NoneV
    /\ header.open = NoneV
    /\ header' = [header EXCEPT !.open = Some(open_header(Unwrap(header.result)))]
    /\ UNCHANGED <<bytes_lexer, lexed, catVars, parserVars, loaderVars, uiVars>>

NextHeader ==
    \/ ReadHeaderLine
    \/ OpenHeader

-----------------------------------------------------------------------------
(* find_token, strip_ascii_range and Lexer::next on the bytes of a file    *)
(* (qfx_file/lexer.rs).  An index counts from 0, as in the source; a range *)
(* is the pair of its start and of its end, which it excludes.             *)

\* &buf[range]
slice(buf, range) == SubSeq(buf, range.start + 1, range.end)

\* Range::is_empty
range_is_empty(range) == ~(range.start < range.end)

\* count_leading_ascii: the whitespace bytes before the first other byte
count_leading_ascii(buf) ==
    Cardinality({i \in DOMAIN buf : \A j \in 1..i : is_ascii_whitespace(buf[j])})

\* count_trailing_ascii: the whitespace bytes after the last other byte
count_trailing_ascii(buf) ==
    Cardinality({i \in DOMAIN buf : \A j \in i..Len(buf) : is_ascii_whitespace(buf[j])})

\* strip_ascii_range that leaves the range as it is
strip_ascii_range_nothing(buf, range) == range

\* strip_ascii_range
strip_ascii_range(buf, range) ==
    [start |-> range.start + count_leading_ascii(slice(buf, range)),
     end |-> range.end - count_trailing_ascii(slice(buf, range))]

TokenSearch(consumed, start, end, key_type) ==
    [ok |-> TRUE, consumed |-> consumed, value_range |-> [start |-> start, end |-> end],
     key_type |-> key_type]

SearchErr(message) == [ok |-> FALSE, error |-> message]

\* the arm of '/' that takes a slash anywhere in an open key
slash_anywhere(idx, key_type) ==
    IF key_type = Some("Key") THEN [ok |-> TRUE, key_type |-> Some("CloseKey")]
    ELSE IF key_type = Some("CloseKey") THEN SearchErr("Slash in key name")
    ELSE [ok |-> TRUE, key_type |-> key_type]

\* find_token: the arm of b'/', which fails or gives the key type to go on with
slash(idx, key_type) ==
    IF key_type = Some("Key")
    THEN IF idx # 1 THEN SearchErr("Slash in key name")
         ELSE [ok |-> TRUE, key_type |-> Some("CloseKey")]
    ELSE IF key_type = Some("CloseKey") THEN SearchErr("Slash in key name")
    ELSE [ok |-> TRUE, key_type |-> key_type]

\* find_token from the byte at idx on, with the key type found before it
RECURSIVE find_token_from(_, _, _)
find_token_from(buf, idx, key_type) ==
    IF idx = Len(buf)
    THEN IF buf = << >> THEN SearchErr("Can't find token in empty buf")
         ELSE IF IsSome(key_type) THEN SearchErr("End of file in key")
         ELSE TokenSearch(Len(buf), 0, Len(buf), NoneV)
    ELSE IF buf[idx + 1] = "<"
    THEN IF IsSome(key_type) THEN SearchErr("Start of key inside key")
         ELSE IF idx > 0 THEN TokenSearch(idx, 0, idx, NoneV)
         ELSE find_token_from(buf, idx + 1, Some("Key"))
    ELSE IF buf[idx + 1] = ">"
    THEN IF key_type = Some("Key") THEN TokenSearch(idx + 1, 1, idx, key_type)
         ELSE IF key_type = Some("CloseKey") THEN TokenSearch(idx + 1, 2, idx, key_type)
         ELSE SearchErr("End of key without start of key")
    ELSE IF buf[idx + 1] = "/"
    THEN LET r == slash(idx, key_type) IN
         IF r.ok THEN find_token_from(buf, idx + 1, r.key_type) ELSE r
    ELSE find_token_from(buf, idx + 1, key_type)

\* find_token that does not count the bytes of an open key as consumed
find_token_open_again(buf) ==
    LET search == find_token_from(buf, 0, NoneV) IN
    IF search.ok
    THEN IF search.key_type = Some("Key") THEN [search EXCEPT !.consumed = 0] ELSE search
    ELSE search

\* find_token
find_token(buf) == find_token_from(buf, 0, NoneV)

\* Lexer::new on the bytes
Lexer_new_bytes(data, hide_field_close) ==
    [data |-> data, hide_field_close |-> hide_field_close, last_open |-> NoneV,
     consumed |-> 0, last_item_was_value |-> FALSE]

\* what Lexer::next returns, with the lexer it leaves
Lexed(lx, result) == [lexer |-> lx, result |-> result]

\* hide computed without last_item_was_value
hide_close_after_any(lx, range) ==
    /\ lx.hide_field_close
    /\ IsSome(lx.last_open)
    /\ slice(lx.data, Unwrap(lx.last_open)) = slice(lx.data, range)

\* Lexer::next: hide, of the close key whose name is at range
hide_close(lx, range) ==
    /\ lx.hide_field_close
    /\ lx.last_item_was_value
    /\ IsSome(lx.last_open)
    /\ slice(lx.data, Unwrap(lx.last_open)) = slice(lx.data, range)

\* Lexer::next on the bytes: the loop, which goes round again after a field
\* close it hides and after a value that is all whitespace
RECURSIVE Lexer_next(_)
Lexer_next(lx) ==
    IF lx.consumed = Len(lx.data) THEN Lexed(lx, [kind |-> "None"])
    ELSE
    LET search == find_token(SubSeq(lx.data, lx.consumed + 1, Len(lx.data))) IN
    IF ~search.ok THEN Lexed(lx, [kind |-> "Err", error |-> search.error])
    ELSE
    LET range == strip_ascii_range(lx.data,
                     [start |-> search.value_range.start + lx.consumed,
                      end |-> search.value_range.end + lx.consumed])
        advanced == [lx EXCEPT !.consumed = @ + search.consumed]
    IN  IF IsSome(search.key_type)
        THEN IF range_is_empty(range)
             THEN Lexed(advanced, [kind |-> "Err", error |-> "Empty key"])
             ELSE IF search.key_type = Some("Key")
             THEN Lexed([advanced EXCEPT !.last_item_was_value = FALSE,
                                    !.last_open = Some(range)],
                        [kind |-> "OpenKey", text |-> slice(lx.data, range)])
             ELSE LET taken == [advanced EXCEPT !.last_open = NoneV,
                                            !.last_item_was_value = FALSE]
                  IN  IF hide_close(lx, range)
                      THEN Lexer_next(taken)
                      ELSE Lexed(taken, [kind |-> "CloseKey",
                                         text |-> slice(lx.data, range)])
        ELSE IF range_is_empty(range) THEN Lexer_next(advanced)
        ELSE Lexed([advanced EXCEPT !.last_item_was_value = TRUE],
                   [kind |-> "Value", text |-> slice(lx.data, range)])

\* the bytes of the files: every sequence of up to MaxBytes bytes of a tag
\* character, a letter or a space, and every sequence of up to MaxPieces tags
\* and texts
MaxBytes == 5

MaxPieces == 4

Bytes == {"<", ">", "/", "a", " "}

Pieces ==
    {<<"<", "a", ">">>, <<"<", "/", "a", ">">>, <<"<", "b", ">">>, <<"<", "/", "b", ">">>,
     <<"a">>, <<" ">>, <<"a", " ", "b", "\n">>, <<"\t", "\r">>}

FileBytes ==
    SeqsUpTo(Bytes, MaxBytes) \cup {Concat(pieces) : pieces \in SeqsUpTo(Pieces, MaxPieces)}

\* a call of Lexer::next, while the last call returned a token
NextToken ==
    /\ bytes_lexer # NoneV
    /\ IF lexed = << >> THEN TRUE ELSE lexed[Len(lexed)].kind \notin {"None", "Err"}
    /\ \E r \in {Lexer_next(Unwrap(bytes_lexer))} :
           /\ bytes_lexer' = Some(r.lexer)
           /\ lexed' = Append(lexed, r.result)
    /\ UNCHANGED <<header, catVars, parserVars, loaderVars, uiVars>>

NextTokenizer == NextToken

-----------------------------------------------------------------------------
(* LoadState::progress, called by the user interface while load runs.  The  *)
(* call locks the step, then loads loaded_count, then loads total_count:    *)
(* three reads, with steps of load between them.  A value is the exact      *)
(* fraction num / den; the f32 of the code is that fraction rounded, and    *)
(* rounding keeps the order of two values                                   *)

MaxPolls == 3

Fraction(num, den) == [num |-> num, den |-> den]

\* a <= b
le(a, b) == a.num * b.den <= b.num * a.den

\* progress with the two counters taken one for the other
progress_inverted(self_step, loaded, total) ==
    CASE self_step = "NotStarted" -> Fraction(0, 1)
      [] self_step = "LoadingConfig" -> Fraction(1, 1)
      [] self_step = "BuildingRules" -> Fraction(5, 1)
      [] self_step = "LoadingFiles" ->
             IF loaded = 0 THEN Fraction(10, 1)
             ELSE Fraction(10 * loaded + total * 85, loaded)
      [] self_step = "Done" -> Fraction(100, 1)

\* progress on the files that are left
progress_of_remaining(self_step, loaded, total) ==
    CASE self_step = "NotStarted" -> Fraction(0, 1)
      [] self_step = "LoadingConfig" -> Fraction(1, 1)
      [] self_step = "BuildingRules" -> Fraction(5, 1)
      [] self_step = "LoadingFiles" ->
             IF total = 0 THEN Fraction(10, 1)
             ELSE Fraction(10 * total + (total - loaded) * 85, total)
      [] self_step = "Done" -> Fraction(100, 1)

\* the match of progress on the step, the counters having been loaded
progress(self_step, loaded, total) ==
    CASE self_step = "NotStarted" -> Fraction(0, 1)
      [] self_step = "LoadingConfig" -> Fraction(1, 1)
      [] self_step = "BuildingRules" -> Fraction(5, 1)
      [] self_step = "LoadingFiles" ->
             IF total = 0 THEN Fraction(10, 1)
             ELSE Fraction(10 * total + loaded * 85, total)
      [] self_step = "Done" -> Fraction(100, 1)

\* no call of progress is running
NoCall == [pc |-> "idle", step |-> "NotStarted", loaded |-> 0]

\* a value progress returned, with the step it had read
ProgressReturn(self_step, loaded, total) ==
    [step |-> self_step, loaded |-> loaded, total |-> total,
     value |-> progress(self_step, loaded, total)]

\* let step = { *self.step.lock() }; in a step other than LoadingFiles the
\* call returns at once
ProgressStep ==
    /\ progress_call.pc = "idle"
    /\ Len(progress_returns) < MaxPolls
    /\ IF step = "LoadingFiles"
       THEN /\ progress_call' = [pc |-> "loaded", step |-> step, loaded |-> 0]
            /\ UNCHANGED progress_returns
       ELSE /\ progress_returns' = Append(progress_returns, ProgressReturn(step, 0, 0))
            /\ UNCHANGED progress_call
    /\ UNCHANGED <<catVars, parserVars, loaderVars, readerVars>>

\* let loaded = self.loaded_count.load(Relaxed)
ProgressLoaded ==
    /\ progress_call.pc = "loaded"
    /\ progress_call' = [progress_call EXCEPT !.pc = "total", !.loaded = loaded_count]
    /\ UNCHANGED <<progress_returns, catVars, parserVars, loaderVars, readerVars>>

\* let total = self.total_count.load(Relaxed), and the value returned
ProgressTotal ==
    /\ progress_call.pc = "total"
    /\ progress_returns' = Append(progress_returns,
                                  ProgressReturn(progress_call.step, progress_call.loaded,
                                                 total_count))
    /\ progress_call' = NoCall
    /\ UNCHANGED <<catVars, parserVars, loaderVars, readerVars>>

NextProgress == ProgressStep \/ ProgressLoaded \/ ProgressTotal

-----------------------------------------------------------------------------
(* Specifications *)

\* no header and no bytes are being read
InitReaderIdle ==
    /\ header = NewHeader
    /\ bytes_lexer = NoneV
    /\ lexed = << >>
    /\ progress_call = NoCall
    /\ progress_returns = << >>

\* load has not been called
InitLoaderIdle ==
    /\ config = [transaction_type |-> << >>, rule |-> << >>, account |-> << >>]
    /\ step = "NotStarted"
    /\ file_system = [entries |-> 0, files |-> 0, transactions |-> 0, kinds |-> {}]
    /\ load_pc = "idle"
    /\ load_result = "Pending"
    /\ load_error = NoneV
    /\ total_count = 0
    /\ loaded_count = 0
    /\ walker = [account |-> 0, stack |-> << >>, dir |-> NoneV, sending |-> NoneV,
                 done |-> FALSE, entries |-> 0]
    /\ file_queue = << >>
    /\ imports = EmptyBag
    /\ dates = <<NaiveDate_MAX, NaiveDate_MIN>>
    /\ db = Db_build
    /\ sent = << >>
    /\ completed = << >>
    /\ read = 0
    /\ last = NoneV
    /\ categorize_calls = 0

-----------------------------------------------------------------------------
(* Specifications of the categorizer.  The configurations are drawn from   *)
(* four slices of the configuration space, each varying the fields one     *)
(* group of properties depends on and fixing the others.                   *)

AllKeys == PrefixKeys \cup SourceTypeKeys

ValidKeys == {k \in AllKeys : IsSome(k.prefix) \/ IsSome(k.source_type)}

FoodRule ==
    [transaction_type |-> "DebitPurchase", category |-> "Food", ignore |-> FALSE,
     patterns |-> << <<"B">> >>]

\* every mode, key, user type and account list; one rule
TypeSlice ==
    SeqsUpTo(TypeConfigs(AllKeys, UserTypes, {FALSE}, {"Name"}, AccountLists), MaxTypes)
    \X {<<FoodRule>>}

\* every rule list; one type configuration
RuleSlice ==
    {<< [mode |-> "Prefix", prefix |-> Some(<<"A">>), source_type |-> NoneV,
         transaction_type |-> "DebitPurchase", income |-> FALSE,
         name_source |-> "NameSuffix", accounts |-> <<"chequing">>] >>}
    \X SeqsUpTo(RuleConfigs(UserTypes, Categories, BOOLEAN,
                            SeqsUpTo(Patterns, MaxPatterns)), MaxRules)

\* every key and name source, on one or both accounts; one rule
NameSourceSlice ==
    SeqsUpTo(TypeConfigs(ValidKeys, {"DebitPurchase"}, {FALSE}, NameSources,
                         {<<"chequing">>, <<"chequing", "visa">>}), MaxTypes)
    \X {<<FoodRule>>}

\* user type and income of the types against user type, category and ignore
\* of the rules
IgnoreSlice ==
    SeqsUpTo(TypeConfigs({k \in ValidKeys : k.prefix = Some(<<"A">>)
                                            \/ k.source_type = Some("Debit")},
                         UserTypes, BOOLEAN, {"Name"}, {<<"chequing">>}), MaxTypes)
    \X SeqsUpTo(RuleConfigs(UserTypes, Categories, BOOLEAN, {<< <<"B">> >>}), MaxRules)

CategorizerConfigs == TypeSlice \cup RuleSlice \cup NameSourceSlice \cup IgnoreSlice

\* a few configurations, for runs of several calls
PurityConfigs ==
    SeqsUpTo(TypeConfigs({k \in ValidKeys : k.prefix = Some(<<"A">>)
                                            \/ k.source_type = Some("Debit")},
                         {"DebitPurchase"}, {FALSE}, NameSources, {<<"chequing">>}),
             MaxTypes)
    \X {<<FoodRule>>}

\* no document is being parsed
InitParserIdle ==
    /\ tokens = << >>
    /\ is_xml = FALSE
    /\ parser = load(<< >>, FALSE)
    /\ returns = << >>
    /\ emitted = << >>

InitCatCommon ==
    /\ categorizer = Unbuilt
    /\ unknown_type_counts = EmptyMap
    /\ unknown_category_counts = EmptyMap
    /\ history = << >>
    /\ InitParserIdle
    /\ InitLoaderIdle
    /\ InitReaderIdle

\* no categorizer is configured
InitCatIdle ==
    /\ transaction_types = << >>
    /\ rules = << >>
    /\ categorizer = Unbuilt
    /\ unknown_type_counts = EmptyMap
    /\ unknown_category_counts = EmptyMap
    /\ transactions_left = 0
    /\ history = << >>
    /\ transactions = {}

\* one categorize call on each built categorizer
InitCategorizer ==
    /\ \E cfg \in CategorizerConfigs :
           /\ transaction_types = cfg[1]
           /\ rules = cfg[2]
    /\ transactions_left = 1
    /\ transactions = Transactions(CallAccounts, Names, SourceTypes, Memos)
    /\ InitCatCommon

SpecCategorizer == InitCategorizer /\ [][NextCategorizer]_vars

\* up to MaxCalls categorize calls on each built categorizer
InitPurity ==
    /\ \E cfg \in PurityConfigs :
           /\ transaction_types = cfg[1]
           /\ rules = cfg[2]
    /\ transactions_left = MaxCalls
    /\ transactions = Transactions({"chequing", "unknown"}, {<<"B">>, <<"A", "B">>},
                                   SourceTypes, {NoneV})
    /\ InitCatCommon

SpecPurity == InitPurity /\ [][NextCategorizer]_vars

\* names, memos and patterns with whitespace around them: one type
\* configuration or two of one user type, by prefix and by source type, and up
\* to one rule of up to MaxPatterns patterns
WhitespacePatterns == {<<"B">>, <<"B", " ">>, <<" ", "B">>, <<"A", "B">>}

WhitespaceNames ==
    {<<"B">>, <<" ", "B">>, <<"B", " ">>, <<" ", "A", "B">>, <<"A", " ", "B">>,
     <<"A", "B", " ">>, <<" ">>}

WhitespaceMemos == {NoneV, Some(<<"B", " ">>), Some(<<" ", "B", " ">>)}

WhitespaceConfigs ==
    SeqsUpTo(TypeConfigs({k \in ValidKeys : k.prefix = Some(<<"A">>)
                                            \/ k.source_type = Some("Debit")},
                         {"DebitPurchase"}, {FALSE}, NameSources, {<<"chequing">>}),
             MaxTypes)
    \X SeqsUpTo(RuleConfigs(UserTypes, {"Food"}, {FALSE},
                            SeqsUpTo(WhitespacePatterns, MaxPatterns) \ {<< >>}), 1)

InitWhitespace ==
    /\ \E cfg \in WhitespaceConfigs :
           /\ transaction_types = cfg[1]
           /\ rules = cfg[2]
    /\ transactions_left = 1
    /\ transactions = Transactions({"chequing"}, WhitespaceNames, SourceTypes,
                                   WhitespaceMemos)
    /\ InitCatCommon

SpecWhitespace == InitWhitespace /\ [][NextCategorizer]_vars

-----------------------------------------------------------------------------
(* Specification of the parser *)

\* every document, a new parser, no call made
InitParser ==
    /\ \E file \in Files :
           /\ tokens = file.contents
           /\ is_xml = file.is_xml
    /\ parser = load(tokens, is_xml)
    /\ returns = << >>
    /\ emitted = << >>
    /\ InitCatIdle
    /\ InitLoaderIdle
    /\ InitReaderIdle

SpecParser == InitParser /\ [][NextParser]_vars

-----------------------------------------------------------------------------
(* Specification of the lexer: every sequence of up to MaxTokens tokens over *)
(* two keys and one value, no value next to another (a value ends at the    *)
(* next '<'), as an SGML file and as an XML file                             *)

MaxTokens == 4

TokenSeqs ==
    {seq \in SeqsUpTo({OpenKey("A"), OpenKey("B"), CloseKey("A"), CloseKey("B"),
                       Value("v")}, MaxTokens) :
        \A i \in 1..(Len(seq) - 1) : ~(seq[i].kind = "Value" /\ seq[i + 1].kind = "Value")}

InitLexer ==
    /\ tokens \in TokenSeqs
    /\ is_xml \in BOOLEAN
    /\ parser = load(tokens, is_xml)
    /\ returns = << >>
    /\ emitted = << >>
    /\ InitCatIdle
    /\ InitLoaderIdle
    /\ InitReaderIdle

SpecLexer == InitLexer /\ [][NextLexer]_vars

-----------------------------------------------------------------------------
(* Specification of the header: read_sgml_header called on every sequence  *)
(* of the lines, then the check of QfxReader::open                         *)

InitHeader ==
    /\ header = NewHeader
    /\ bytes_lexer = NoneV
    /\ lexed = << >>
    /\ InitCatIdle
    /\ InitParserIdle
    /\ InitLoaderIdle
    /\ progress_call = NoCall
    /\ progress_returns = << >>

SpecHeader == InitHeader /\ [][NextHeader]_vars

-----------------------------------------------------------------------------
(* Specification of the tokenizer: a Lexer over each file, as an SGML file *)
(* and as an XML file, called until it returns no token                    *)

InitTokenizer ==
    /\ \E data \in FileBytes : \E hide_field_close \in BOOLEAN :
           bytes_lexer = Some(Lexer_new_bytes(data, hide_field_close))
    /\ lexed = << >>
    /\ header = NewHeader
    /\ InitCatIdle
    /\ InitParserIdle
    /\ InitLoaderIdle
    /\ progress_call = NoCall
    /\ progress_returns = << >>

SpecTokenizer == InitTokenizer /\ [][NextTokenizer]_vars

\* Lexer::new on the bytes of a file that was read, then the calls of
\* Lexer::next, which the caller repeats until one returns no token
InitCursor ==
    /\ bytes_lexer = NoneV
    /\ lexed = << >>
    /\ header = NewHeader
    /\ InitCatIdle
    /\ InitParserIdle
    /\ InitLoaderIdle
    /\ progress_call = NoCall
    /\ progress_returns = << >>

MaxCursorBytes == 4

MaxCursorPieces == 3

CursorBytes ==
    SeqsUpTo(Bytes, MaxCursorBytes)
        \cup {Concat(pieces) : pieces \in SeqsUpTo(Pieces, MaxCursorPieces)}

NewLexer ==
    /\ bytes_lexer = NoneV
    /\ \E data \in CursorBytes : \E hide_field_close \in BOOLEAN :
           bytes_lexer' = Some(Lexer_new_bytes(data, hide_field_close))
    /\ UNCHANGED <<lexed, header, catVars, parserVars, loaderVars, uiVars>>

NextCursor == NewLexer \/ NextToken

SpecCursor == InitCursor /\ [][NextCursor]_vars

FairCursor == SpecCursor /\ WF_vars(NextCursor)

-----------------------------------------------------------------------------
(* Specification of the loader: load called on each configuration, with a   *)
(* new database; the directories and the files are what the walker and the  *)
(* readers find                                                             *)

\* load is called: nothing has run
InitLoad ==
    /\ step = "NotStarted"
    /\ load_pc = "start"
    /\ load_result = "Pending"
    /\ load_error = NoneV
    /\ total_count = 0
    /\ loaded_count = 0
    /\ walker = [account |-> 0, stack |-> << >>, dir |-> NoneV, sending |-> NoneV,
                 done |-> FALSE, entries |-> 0]
    /\ file_queue = << >>
    /\ imports = EmptyBag
    /\ dates = <<NaiveDate_MAX, NaiveDate_MIN>>
    /\ db = Db_build
    /\ sent = << >>
    /\ completed = << >>
    /\ read = 0
    /\ last = NoneV
    /\ categorize_calls = 0
    /\ transaction_types = config.transaction_type
    /\ rules = config.rule
    /\ categorizer = Unbuilt
    /\ unknown_type_counts = EmptyMap
    /\ unknown_category_counts = EmptyMap
    /\ transactions_left = 0
    /\ history = << >>
    /\ transactions = {}
    /\ InitParserIdle
    /\ InitReaderIdle

InitLoader ==
    /\ config \in LoaderConfigs
    /\ file_system = [entries |-> MaxEntries, files |-> MaxFiles,
                      transactions |-> MaxRead, kinds |-> EntryKinds]
    /\ InitLoad

SpecLoader == InitLoader /\ [][NextLoader]_vars

-----------------------------------------------------------------------------
(* Specification of the fan-out: load called on one account whose directory *)
(* holds FanOutFiles symbolic links to one file with no transaction, more  *)
(* than the channel and the workers can hold together                      *)

\* the links of the directory
FanOutFiles == 17

InitFanOut ==
    /\ config = [transaction_type |-> LoaderTypes, rule |-> LoaderRules,
                 account |-> << [name |-> "chequing", source_path |-> <<"chequing">>] >>]
    /\ file_system = [entries |-> FanOutFiles, files |-> FanOutFiles,
                      transactions |-> 0, kinds |-> {"symlink_file"}]
    /\ InitLoad

SpecFanOut == InitFanOut /\ [][NextLoader]_vars

\* every task that can run is run in the end: the runtime polls the join, and
\* the join polls the walker and the workers that were woken
FairFanOut == SpecFanOut /\ WF_vars(NextLoader)

-----------------------------------------------------------------------------
(* Specification of the walk: load called on two accounts whose trees hold  *)
(* up to WalkEntries directories and files between them and no symbolic     *)
(* link; the files hold no transaction                                      *)

WalkEntries == 3

InitWalk ==
    /\ config = [transaction_type |-> LoaderTypes, rule |-> LoaderRules,
                 account |-> << [name |-> "chequing", source_path |-> <<"chequing">>],
                                [name |-> "visa", source_path |-> <<"visa">>] >>]
    /\ file_system = [entries |-> WalkEntries, files |-> WalkEntries,
                      transactions |-> 0, kinds |-> {"dir", "file"}]
    /\ InitLoad

SpecWalk == InitWalk /\ [][NextLoader]_vars

\* the runtime polls the join, and the join polls the walker whenever it can
\* go on
FairWalk == SpecWalk /\ WF_vars(NextLoader)

-----------------------------------------------------------------------------
(* Specification of the progress: load called on one account whose          *)
(* directory holds ProgressFiles links to one file with no transaction,     *)
(* and up to MaxPolls calls of LoadState::progress made at any time         *)

ProgressFiles == 3

InitProgress ==
    /\ config = [transaction_type |-> LoaderTypes, rule |-> LoaderRules,
                 account |-> << [name |-> "chequing", source_path |-> <<"chequing">>] >>]
    /\ file_system = [entries |-> ProgressFiles, files |-> ProgressFiles,
                      transactions |-> 0, kinds |-> {"symlink_file"}]
    /\ InitLoad

NextLoadAndProgress == NextLoader \/ NextProgress

SpecProgress == InitProgress /\ [][NextLoadAndProgress]_vars

-----------------------------------------------------------------------------
(* Vocabulary of the categorizer properties, stated on the configuration   *)
(* given to build and on the recorded calls                                *)

Built == categorizer.status # "unbuilt"

BuiltOk == categorizer.status = "ok"

\* the prefixes the configuration gives an account
ConfiguredPrefixes(account) ==
    {Unwrap(tc.prefix) : tc \in {c \in Range(transaction_types) :
                                     /\ c.mode = "Prefix"
                                     /\ IsSome(c.prefix)
                                     /\ account \in Range(c.accounts)}}

\* the source types the configuration gives an account
ConfiguredSourceTypes(account) ==
    {Unwrap(tc.source_type) : tc \in {c \in Range(transaction_types) :
                                          /\ c.mode = "SourceType"
                                          /\ IsSome(c.source_type)
                                          /\ account \in Range(c.accounts)}}

PrefixHits(h) == {p \in ConfiguredPrefixes(h.account) : starts_with(h.name, p)}

TypeHit(h) == h.transaction_tye \in ConfiguredSourceTypes(h.account)

LongestHit(h) == CHOOSE p \in PrefixHits(h) : \A q \in PrefixHits(h) : Len(q) <= Len(p)

Calls == Range(history)

LoaderCalls == {h \in Calls : h.revision = "loader"}

C2_MissingType ==
    \A h \in LoaderCalls :
        (PrefixHits(h) = {} /\ ~TypeHit(h)) =>
            h.result = MissingType(h.account, h.transaction_tye, h.name)

C2_Witness ==
    \E h \in LoaderCalls :
        /\ h.account \notin Accounts
        /\ \E a \in Accounts : \E p \in ConfiguredPrefixes(a) : starts_with(h.name, p)
        /\ h.result.kind = "MissingType"

\* the type configurations that give the call's account its source type
SourceTypeConfigsOf(h) ==
    {c \in Range(transaction_types) :
        /\ c.mode = "SourceType"
        /\ c.source_type = Some(h.transaction_tye)
        /\ h.account \in Range(c.accounts)}

\* C3: a decoder selected through the source-type map (no prefix matched)
\* whose name_source is NameSuffix makes the loader's categorize fail with
\* NameSuffixInSourceType, whatever the name and the memo
C3_NameSuffixInSourceType ==
    \A h \in LoaderCalls :
        (/\ PrefixHits(h) = {}
         /\ \E c \in SourceTypeConfigsOf(h) : c.name_source = "NameSuffix") =>
            h.result = CatErr("NameSuffixInSourceType", NoneV)

C3_Witness ==
    \E h \in LoaderCalls :
        /\ PrefixHits(h) = {}
        /\ \E c \in SourceTypeConfigsOf(h) : c.name_source = "NameSuffix"
        /\ IsSome(h.memo)
        /\ h.result.kind = "Err"

\* the type configurations whose decoder a loader call selects: through the
\* longest matching prefix when no source type matches, through the source
\* type when no prefix matches
SelectedConfigs(h) ==
    IF PrefixHits(h) # {} /\ ~TypeHit(h)
    THEN {c \in Range(transaction_types) :
             /\ c.mode = "Prefix"
             /\ c.prefix = Some(LongestHit(h))
             /\ h.account \in Range(c.accounts)}
    ELSE IF PrefixHits(h) = {} /\ TypeHit(h)
    THEN SourceTypeConfigsOf(h)
    ELSE {}

\* the display name of a call under a selected type configuration, when the
\* name source yields one
DisplayOf(c, h) ==
    IF c.name_source = "Name" THEN Some(trim(h.name))
    ELSE IF c.name_source = "Memo"
    THEN IF IsSome(h.memo) THEN Some(trim(Unwrap(h.memo))) ELSE NoneV
    ELSE IF c.mode = "Prefix"
    THEN Some(trim(SubSeq(h.name, Len(Unwrap(c.prefix)) + 1, Len(h.name))))
    ELSE NoneV

\* C4: a category enters categories() only through a rule that is not ignored
\* and whose user type a type configuration names (with that configuration's
\* income flag), so an ignored rule alone never adds its category; yet a call
\* whose display name equals a pattern of an ignored rule of the selected
\* decoder's user type is Categorized with ignore = true and the rule's category
C4_IgnoredRules ==
    /\ BuiltOk =>
          \A e \in categorizer.categories :
              \E r \in Range(rules), c \in Range(transaction_types) :
                  /\ ~r.ignore
                  /\ r.category = e[1]
                  /\ r.patterns # << >>
                  /\ c.transaction_type = r.transaction_type
                  /\ c.income = e[2]
    /\ \A h \in LoaderCalls :
          \A c \in SelectedConfigs(h), r \in Range(rules) :
              (/\ r.ignore
               /\ r.transaction_type = c.transaction_type
               /\ IsSome(DisplayOf(c, h))
               /\ Unwrap(DisplayOf(c, h)) \in Range(r.patterns)) =>
                  h.result = Categorized(c.income, TRUE, r.category)

C4_Witness ==
    /\ BuiltOk
    /\ \E h \in LoaderCalls :
          /\ h.result.kind = "Categorized"
          /\ h.result.value.ignore
          /\ \A inc \in BOOLEAN : <<h.result.value.category, inc>> \notin categorizer.categories
          /\ categorizer.categories # {}

\* the (type configuration, account) listings of the configuration
TypePositions ==
    UNION {{<<i, j>> : j \in DOMAIN transaction_types[i].accounts} :
               i \in DOMAIN transaction_types}

\* the (rule, pattern) listings of the configuration
RulePositions ==
    UNION {{<<i, k>> : k \in DOMAIN rules[i].patterns} : i \in DOMAIN rules}

DecodersOf(map, account) == IF HasKey(map, account) THEN DOMAIN map[account] ELSE {}

\* the entries of a map of one account whose decoder has the given user type
DecodersOfType(map, account, u) ==
    {k \in DecodersOf(map, account) : map[account][k].transaction_type = u}

\* C5 as stated: after a successful build an account holds at most one decoder
\* of a user type, across its prefix trie and its source-type map
C5_OneDecoderPerUserType ==
    BuiltOk =>
        \A a \in Accounts, u \in UserTypes :
            Cardinality(DecodersOfType(categorizer.prefix_map, a, u))
            + Cardinality(DecodersOfType(categorizer.source_type_map, a, u)) <= 1

SameKey(c, d) ==
    /\ c.mode = d.mode
    /\ IF c.mode = "Prefix"
       THEN IsSome(c.prefix) /\ c.prefix = d.prefix
       ELSE IsSome(c.source_type) /\ c.source_type = d.source_type

\* two listings that bind one account twice to one prefix or to one source type
KeyCollision(x, y) ==
    /\ x # y
    /\ SameKey(transaction_types[x[1]], transaction_types[y[1]])
    /\ transaction_types[x[1]].accounts[x[2]] = transaction_types[y[1]].accounts[y[2]]

\* C5 as amended: after a successful build no two listings bind an account to
\* the same prefix or to the same source type, every listing has its decoder
\* in the account's map, carrying the user type of its configuration, and no
\* decoder exists without a listing; several decoders of one user type under
\* different keys are accepted
C5_OneDecoderPerKey ==
    BuiltOk =>
        /\ \A x \in TypePositions, y \in TypePositions : ~KeyCollision(x, y)
        /\ \A x \in TypePositions :
              LET c == transaction_types[x[1]]
                  a == c.accounts[x[2]]
              IN  IF c.mode = "Prefix"
                  THEN /\ Unwrap(c.prefix) \in DecodersOf(categorizer.prefix_map, a)
                       /\ categorizer.prefix_map[a][Unwrap(c.prefix)].transaction_type
                              = c.transaction_type
                  ELSE /\ Unwrap(c.source_type) \in DecodersOf(categorizer.source_type_map, a)
                       /\ categorizer.source_type_map[a][Unwrap(c.source_type)].transaction_type
                              = c.transaction_type
        /\ \A a \in Accounts :
              /\ DecodersOf(categorizer.prefix_map, a) = ConfiguredPrefixes(a)
              /\ DecodersOf(categorizer.source_type_map, a) = ConfiguredSourceTypes(a)

C5_Witness ==
    /\ BuiltOk
    /\ \E a \in Accounts, u \in UserTypes :
          Cardinality(DecodersOfType(categorizer.prefix_map, a, u)) = 2

\* two listings of one pattern among the rules of one user type
RuleCollision(x, y) ==
    /\ x # y
    /\ rules[x[1]].transaction_type = rules[y[1]].transaction_type
    /\ rules[x[1]].patterns[x[2]] = rules[y[1]].patterns[y[2]]

DupRule == \E x \in RulePositions, y \in RulePositions : RuleCollision(x, y)

Before(x, y) == x[1] < y[1] \/ (x[1] = y[1] /\ x[2] < y[2])

AllDecoders ==
    UNION {Range(categorizer.prefix_map[a]) : a \in DOMAIN categorizer.prefix_map}
    \cup UNION {Range(categorizer.source_type_map[a]) :
                    a \in DOMAIN categorizer.source_type_map}

\* C6: build fails with DuplicateRule exactly when one pattern is listed twice
\* among the rules of one user type (in one rule or in two, with the same or
\* another category), the error naming the pattern and the two categories; the
\* same pattern under two user types does not fail; so each key of a built
\* decoder comes from exactly one rule listing and carries that rule's category
C6_DuplicateRule ==
    Built =>
        /\ DupRule <=> categorizer.error.kind = "DuplicateRule"
        /\ categorizer.error.kind = "DuplicateRule" =>
              \E x \in RulePositions, y \in RulePositions :
                  /\ RuleCollision(x, y)
                  /\ Before(x, y)
                  /\ categorizer.error.detail =
                         Some([pattern |-> rules[y[1]].patterns[y[2]],
                               existing |-> rules[x[1]].category,
                               new |-> rules[y[1]].category])
        /\ BuiltOk =>
              \A d \in AllDecoders :
                  /\ DOMAIN d.categories =
                         UNION {Range(r.patterns) :
                                    r \in {q \in Range(rules) :
                                               q.transaction_type = d.transaction_type}}
                  /\ \A pat \in DOMAIN d.categories :
                        \E x \in RulePositions :
                            /\ rules[x[1]].transaction_type = d.transaction_type
                            /\ rules[x[1]].patterns[x[2]] = pat
                            /\ d.categories[pat] = [category |-> rules[x[1]].category,
                                                    ignore |-> rules[x[1]].ignore]
                            /\ \A y \in RulePositions :
                                  (/\ rules[y[1]].transaction_type = d.transaction_type
                                   /\ rules[y[1]].patterns[y[2]] = pat) => y = x

C6_Witness ==
    /\ categorizer.error.kind = "DuplicateRule"
    /\ Len(rules) = 2
    /\ rules[1].category # rules[2].category
    /\ \A i \in DOMAIN rules : Len(rules[i].patterns) = 1

\* the same pattern under two user types, accepted
C6_AcceptedWitness ==
    /\ BuiltOk
    /\ \E x \in RulePositions, y \in RulePositions :
          /\ rules[x[1]].transaction_type # rules[y[1]].transaction_type
          /\ rules[x[1]].patterns[x[2]] = rules[y[1]].patterns[y[2]]

PrefixCollisions ==
    {x \in TypePositions :
        /\ transaction_types[x[1]].mode = "Prefix"
        /\ \E y \in TypePositions : KeyCollision(x, y)}

SourceTypeCollisions ==
    {x \in TypePositions :
        /\ transaction_types[x[1]].mode = "SourceType"
        /\ \E y \in TypePositions : KeyCollision(x, y)}

MissingKey ==
    \E c \in Range(transaction_types) :
        IF c.mode = "Prefix" THEN ~IsSome(c.prefix) ELSE ~IsSome(c.source_type)

\* C7 as stated: a prefix given twice to one account makes build fail with
\* DuplicatePrefix of that prefix, a source type given twice to one account
\* with DuplicateSourceType of that source type
C7_DuplicateKeyAlways ==
    Built =>
        /\ \A x \in PrefixCollisions :
              /\ categorizer.error.kind = "DuplicatePrefix"
              /\ categorizer.error.detail = transaction_types[x[1]].prefix
        /\ \A x \in SourceTypeCollisions :
              /\ categorizer.error.kind = "DuplicateSourceType"
              /\ categorizer.error.detail = transaction_types[x[1]].source_type

\* C7 as amended: a prefix or a source type given twice to one account always
\* makes build fail; the error is DuplicatePrefix(p) or DuplicateSourceType(t)
\* of a key that is given twice, and it is the one of the prefixes (of the
\* source types) whenever build meets no other failure: no duplicate rule, no
\* missing prefix or source type, no collision of the other mode.  Without any
\* of these failures, the same key on different accounts included, build succeeds
C7_DuplicateKey ==
    Built =>
        /\ (PrefixCollisions # {} \/ SourceTypeCollisions # {}) => ~BuiltOk
        /\ categorizer.error.kind = "DuplicatePrefix" =>
              \E x \in PrefixCollisions :
                  categorizer.error.detail = transaction_types[x[1]].prefix
        /\ categorizer.error.kind = "DuplicateSourceType" =>
              \E x \in SourceTypeCollisions :
                  categorizer.error.detail = transaction_types[x[1]].source_type
        /\ (~DupRule /\ ~MissingKey /\ SourceTypeCollisions = {}
            /\ PrefixCollisions # {}) =>
              categorizer.error.kind = "DuplicatePrefix"
        /\ (~DupRule /\ ~MissingKey /\ PrefixCollisions = {}
            /\ SourceTypeCollisions # {}) =>
              categorizer.error.kind = "DuplicateSourceType"
        /\ (~DupRule /\ ~MissingKey /\ PrefixCollisions = {}
            /\ SourceTypeCollisions = {}) => BuiltOk

C7_Witness ==
    /\ categorizer.error.kind = "DuplicatePrefix"
    /\ Len(transaction_types) = 2
    /\ transaction_types[1].prefix = transaction_types[2].prefix
    /\ transaction_types[1].accounts = <<"chequing">>
    /\ transaction_types[2].accounts = <<"visa", "chequing">>

SameInputs(g, h) ==
    /\ g.revision = h.revision
    /\ g.account = h.account
    /\ g.name = h.name
    /\ g.transaction_tye = h.transaction_tye
    /\ g.memo = h.memo

\* calls with identical arguments return identical results, whatever calls
\* were made between them
Deterministic == \A g \in Calls, h \in Calls : SameInputs(g, h) => g.result = h.result

Count(counts, key) == IF HasKey(counts, key) THEN counts[key] ELSE 0

CountsUnchanged ==
    /\ unknown_type_counts' = unknown_type_counts
    /\ unknown_category_counts' = unknown_category_counts

\* exactly one counter of the map is one higher, all others are as before
OneCountUp(before, after) ==
    \E key \in DOMAIN after :
        /\ after[key] = Count(before, key) + 1
        /\ DOMAIN after = DOMAIN before \cup {key}
        /\ \A k \in DOMAIN before : k # key => after[k] = before[k]

-----------------------------------------------------------------------------
(* Vocabulary of the parser properties, read off the tokens of the document *)

RECURSIVE SortedSeq(_)
SortedSeq(S) ==
    IF S = {} THEN << >>
    ELSE LET m == CHOOSE x \in S : \A y \in S : x <= y IN <<m>> \o SortedSeq(S \ {m})

\* the STMTTRN blocks of the document in source order: the position of each
\* <STMTTRN> that has a </STMTTRN> after it, and the position of that close
StatementBlocks ==
    LET closes(i) == {j \in DOMAIN tokens : j > i /\ tokens[j] = CloseKey("STMTTRN")}
        starts == {i \in DOMAIN tokens : tokens[i] = OpenKey("STMTTRN") /\ closes(i) # {}}
        sorted == SortedSeq(starts)
    IN  [k \in DOMAIN sorted |->
            [start |-> sorted[k],
             end |-> CHOOSE j \in closes(sorted[k]) : \A l \in closes(sorted[k]) : j <= l]]

\* the children of a block from position i on: its keys with their values in
\* source order, and whether the block is a sequence of <KEY>value fields and
\* <CCACCTTO><ACCTID>value</CCACCTTO> blocks, a field being written with or
\* without its close
FieldClosed(i, end) == i + 2 < end /\ tokens[i + 2] = CloseKey(tokens[i].text)

RECURSIVE BlockChildren(_, _, _)
BlockChildren(i, end, children) ==
    IF i >= end THEN [children |-> children, ok |-> TRUE]
    ELSE IF tokens[i].kind # "OpenKey" THEN [children |-> children, ok |-> FALSE]
    ELSE IF tokens[i].text = "CCACCTTO"
    THEN IF /\ i + 3 < end
            /\ tokens[i + 1] = OpenKey("ACCTID")
            /\ tokens[i + 2].kind = "Value"
            /\ tokens[i + 2].text \in DOMAIN U32Values
            /\ tokens[IF FieldClosed(i + 1, end) THEN i + 4 ELSE i + 3]
                   = CloseKey("CCACCTTO")
         THEN BlockChildren(IF FieldClosed(i + 1, end) THEN i + 5 ELSE i + 4, end,
                            Append(children, [key |-> "CCACCTTO", value |-> ""]))
         ELSE [children |-> children, ok |-> FALSE]
    ELSE IF i + 1 < end /\ tokens[i + 1].kind = "Value"
    THEN BlockChildren(IF FieldClosed(i, end) THEN i + 3 ELSE i + 2, end,
                       Append(children, [key |-> tokens[i].text,
                                         value |-> tokens[i + 1].text]))
    ELSE [children |-> children, ok |-> FALSE]

ChildrenOf(b) == BlockChildren(b.start + 1, b.end, << >>)

KeysOf(b) == {c.key : c \in Range(ChildrenOf(b).children)}

\* the value the block gives the key
ValueOf(b, key) ==
    LET cs == ChildrenOf(b).children IN
    cs[CHOOSE i \in DOMAIN cs : cs[i].key = key].value

ValidValue(key, value) ==
    CASE key = "TRNTYPE" -> value \in DOMAIN QfxTransactionTypes
      [] key = "DTPOSTED" -> /\ value \in DOMAIN TimestampValues
                             /\ IsSome(TimestampValues[value].datetime)
      [] key = "DTUSER" -> /\ value \in DOMAIN TimestampValues
                           /\ ~TimestampValues[value].ends_with_bracket
                           /\ IsSome(TimestampValues[value].datetime)
      [] key = "TRNAMT" -> value \in DOMAIN DecimalValues
      [] OTHER -> TRUE

\* a block of fields the parser knows, none repeated, each value of its type
WellFormedBlock(b) ==
    LET c == ChildrenOf(b) IN
    /\ c.ok
    /\ \A i \in DOMAIN c.children :
           /\ c.children[i].key \in DOMAIN TransactionFields
           /\ ValidValue(c.children[i].key, c.children[i].value)
           /\ \A j \in DOMAIN c.children : c.children[j].key = c.children[i].key => i = j

MissingKeys(b) == {i \in DOMAIN RequiredKeys : RequiredKeys[i] \notin KeysOf(b)}

\* the transaction is the one the fields of the block spell
TransactionOfBlock(transaction, b) ==
    /\ WellFormedBlock(b)
    /\ MissingKeys(b) = {}
    /\ transaction.transaction_type = QfxTransactionTypes[ValueOf(b, "TRNTYPE")]
    /\ LET v == TimestampValues[ValueOf(b, "DTPOSTED")] IN
       transaction.date_posted =
           [datetime |-> Unwrap(v.datetime),
            offset |-> IF IsSome(v.offset_hours) THEN Unwrap(v.offset_hours)
                       ELSE LocalOffset]
    /\ transaction.amount = DecimalValues[ValueOf(b, "TRNAMT")]
    /\ transaction.transaction_id = ValueOf(b, "FITID")
    /\ transaction.name = ValueOf(b, "NAME")
    /\ transaction.memo = IF "MEMO" \in KeysOf(b) THEN Some(ValueOf(b, "MEMO")) ELSE NoneV

\* the parser accepted the document: a call returned the end of the stream
Accepted == \E i \in DOMAIN returns : returns[i].kind = "None"

\* C9: for a document the parser accepts, the calls return one transaction for
\* each STMTTRN block, the i-th call the transaction of the i-th block of the
\* source, and every call after them returns the end of the stream
C9_OneTransactionPerBlock ==
    Accepted =>
        LET n == Len(StatementBlocks) IN
        /\ Len(returns) > n
        /\ \A i \in 1..n :
               /\ returns[i].kind = "Some"
               /\ TransactionOfBlock(Unwrap(returns[i].value), StatementBlocks[i])
               /\ returns[i].consumed = StatementBlocks[i].end
        /\ \A i \in (n + 1)..Len(returns) : returns[i].kind = "None"

\* two different blocks in two transaction lists, returned in their order, and
\* the end of the stream returned twice
C9_Witness ==
    /\ Len(StatementBlocks) = 2
    /\ Len(returns) = 4
    /\ returns[1].kind = "Some" /\ returns[2].kind = "Some"
    /\ returns[1].value # returns[2].value
    /\ returns[3].kind = "None" /\ returns[4].kind = "None"
    /\ \E i \in DOMAIN tokens :
           StatementBlocks[1].end < i /\ i < StatementBlocks[2].start

\* the position the i-th call started reading at
ConsumedBefore(i) == IF i = 1 THEN 0 ELSE returns[i - 1].consumed

\* the block whose </STMTTRN> the i-th call read: the first block that ends
\* after the position the call started at, when the call read that far
ClosedBy(i) ==
    {k \in DOMAIN StatementBlocks :
        /\ ConsumedBefore(i) < StatementBlocks[k].end
        /\ StatementBlocks[k].end <= returns[i].consumed
        /\ \A l \in DOMAIN StatementBlocks :
               ConsumedBefore(i) < StatementBlocks[l].end => k <= l}

\* C10: a call that reads the </STMTTRN> of a block of well-formed fields
\* stops there; when the block lacks one of TRNTYPE, DTPOSTED, TRNAMT, FITID,
\* NAME the call returns the error "Missing key" naming the first of them the
\* block lacks, and no transaction; when it lacks none of them it returns the
\* transaction, whether or not MEMO, DTUSER and CCACCTTO are in the block
C10_MissingRequiredKey ==
    \A i \in DOMAIN returns : \A k \in ClosedBy(i) :
        LET b == StatementBlocks[k]
            missing == MissingKeys(b)
        IN  WellFormedBlock(b) =>
                /\ returns[i].consumed = b.end
                /\ IF missing # {}
                   THEN /\ returns[i].kind = "Err"
                        /\ returns[i].error =
                               <<E("Missing key",
                                   RequiredKeys[CHOOSE m \in missing :
                                                    \A o \in missing : m <= o])>>
                        /\ i = Len(returns)
                   ELSE /\ returns[i].kind = "Some"
                        /\ TransactionOfBlock(Unwrap(returns[i].value), b)

\* a transaction returned for a block without the optional keys, then the
\* error for a block that has MEMO but lacks a required key
C10_Witness ==
    /\ Len(StatementBlocks) = 2
    /\ Len(returns) = 2
    /\ returns[1].kind = "Some"
    /\ KeysOf(StatementBlocks[1]) \cap {"MEMO", "DTUSER", "CCACCTTO"} = {}
    /\ returns[2].kind = "Err"
    /\ WellFormedBlock(StatementBlocks[2])
    /\ "MEMO" \in KeysOf(StatementBlocks[2])
    /\ MissingKeys(StatementBlocks[2]) # {}
    /\ returns[2].error[1].msg = "Missing key"

-----------------------------------------------------------------------------
(* The containers of the document, read off its tokens: a key followed by a *)
(* value is a field, written with or without its close; any other key opens *)
(* a container, which the first close key of its name after it ends (no     *)
(* container of the documents is inside one of its own name)                *)

Opens == {i \in DOMAIN tokens : tokens[i].kind = "OpenKey"}

Containers ==
    {i \in Opens : ~(i < Len(tokens) /\ tokens[i + 1].kind = "Value")}

\* the position of the close key of the container opened at i, one past the
\* last token when the container is not closed
CloseOf(i) ==
    LET closes == {j \in (i + 1)..Len(tokens) : tokens[j] = CloseKey(tokens[i].text)} IN
    IF closes = {} THEN Len(tokens) + 1
    ELSE CHOOSE j \in closes : \A l \in closes : j <= l

\* the position of the open key of the container the token at j is directly
\* inside, 0 outside every container
ParentOf(j) ==
    LET around == {i \in Containers : i < j /\ j < CloseOf(i)} IN
    IF around = {} THEN 0
    ELSE CHOOSE i \in around : \A k \in around : k <= i

\* the container opened at i has a child of one of the keys
HasChild(i, keys) ==
    \E j \in Opens : /\ tokens[j].text \in keys
                     /\ i < j
                     /\ ParentOf(j) = i

\* the required children of the table of containers: of each set, one child
RequiredChildren(key) ==
    CASE key = "OFX" -> {{"SIGNONMSGSRSV1"}, {"BANKMSGSRSV1", "CREDITCARDMSGSRSV1"}}
      [] key = "SIGNONMSGSRSV1" -> {{"SONRS"}}
      [] key = "SONRS" -> {{"STATUS"}, {"DTSERVER"}, {"LANGUAGE"}, {"FI"}, {"INTU.BID"}}
      [] key = "STATUS" -> {{"CODE"}, {"SEVERITY"}}
      [] key = "FI" -> {{"ORG"}, {"FID"}}
      [] key \in {"BANKMSGSRSV1", "CREDITCARDMSGSRSV1"} -> {{"STMTTRNRS", "CCSTMTTRNRS"}}
      [] key \in {"STMTTRNRS", "CCSTMTTRNRS"} ->
             {{"TRNUID"}, {"STATUS"}, {"STMTRS", "CCSTMTRS"}}
      [] key \in {"STMTRS", "CCSTMTRS"} ->
             {{"CURDEF"}, {"BANKACCTFROM", "CCACCTFROM"}, {"BANKTRANLIST"}, {"LEDGERBAL"}}
      [] key \in {"BANKACCTFROM", "CCACCTFROM"} -> {{"ACCTID"}}
      [] key = "BANKTRANLIST" -> {{"DTSTART"}, {"DTEND"}}
      [] key = "STMTTRN" -> {{"TRNTYPE"}, {"DTPOSTED"}, {"TRNAMT"}, {"FITID"}, {"NAME"}}
      [] key \in {"LEDGERBAL", "AVAILBAL"} -> {{"BALAMT"}, {"DTASOF"}}
      [] OTHER -> {}

\* the containers the states of next_statement_transaction read
StateContainers ==
    {"OFX", "BANKMSGSRSV1", "CREDITCARDMSGSRSV1", "STMTTRNRS", "CCSTMTTRNRS",
     "STMTRS", "CCSTMTRS", "BANKTRANLIST"}

\* the closed containers, among those named, that lack a required child
LackingContainers(names) ==
    {i \in Containers :
        /\ tokens[i].text \in names
        /\ CloseOf(i) <= Len(tokens)
        /\ \E alt \in RequiredChildren(tokens[i].text) : ~HasChild(i, alt)}

AllContainers == {tokens[i].text : i \in DOMAIN tokens}

\* C11: a document in which a container is closed while it lacks a required
\* child is never read to the end of the stream: no call returns Ok(None)
C11_MissingFieldAtClose == Accepted => LackingContainers(AllContainers) = {}

\* the part of C11 the code keeps: the containers the check_* functions read
\* and STMTTRN have every required child in a document that is accepted
C11_CheckedContainers == Accepted => LackingContainers(AllContainers \ StateContainers) = {}

\* a document without TRNUID in STMTTRNRS read to the end of the stream
C11_Witness ==
    /\ Accepted
    /\ \E i \in LackingContainers({"STMTTRNRS"}) :
           \A j \in DOMAIN tokens : j > i => tokens[j] # OpenKey("TRNUID")

\* the second occurrences of a child in its container, STMTTRN apart: the
\* position of the open key
SecondChildren ==
    {j \in Opens :
        /\ tokens[j].text # "STMTTRN"
        /\ \E i \in 1..(j - 1) :
               /\ tokens[i] = tokens[j]
               /\ ParentOf(j) # 0
               /\ ParentOf(i) = ParentOf(j)}

DuplicateMessages == {"Duplicate key", "Duplicate struct", "Failed to parse duplicate struct"}

\* the call failed with a duplicate error, at any level of its chain
DuplicateError(r) ==
    /\ r.kind = "Err"
    /\ \E k \in DOMAIN r.error : r.error[k].msg \in DuplicateMessages

\* C12: a call that reads the second occurrence of a child in its container,
\* STMTTRN apart, fails with a duplicate error
C12_DuplicateChild ==
    \A j \in SecondChildren : \A i \in DOMAIN returns :
        returns[i].consumed >= j => DuplicateError(returns[i])

\* the part of C12 the code keeps: every child but BANKTRANLIST
C12_DuplicateChildButList ==
    \A j \in SecondChildren : \A i \in DOMAIN returns :
        (returns[i].consumed >= j /\ tokens[j].text # "BANKTRANLIST")
            => DuplicateError(returns[i])

\* a second STMTRS refused, after the transaction of the first was returned
C12_Witness ==
    /\ \E j \in SecondChildren : tokens[j].text = "STMTRS"
    /\ Len(returns) = 2
    /\ returns[1].kind = "Some"
    /\ DuplicateError(returns[2])

-----------------------------------------------------------------------------
(* Vocabulary of the lexer properties, read off the tokens of the file *)

\* a close key that follows a value and names the open key before the value
ElidableAt(doc, j) ==
    /\ j >= 3
    /\ doc[j].kind = "CloseKey"
    /\ doc[j - 1].kind = "Value"
    /\ doc[j - 2] = OpenKey(doc[j].text)

Elidable(j) == ElidableAt(tokens, j)

\* the tokens read when the k-th call of the lexer started
ReadBefore(k) == IF k = 1 THEN 0 ELSE emitted[k - 1].consumed

\* the lexer returns the tokens of the file in their order, all but the
\* elidable close keys when elides is true, and all of them when it is false:
\* a call skips only tokens that are elided, returns a token that is not, and
\* returns None at the end of the file
EmitsAllBut(elides) ==
    \A k \in DOMAIN emitted :
        /\ \A j \in (ReadBefore(k) + 1)..(emitted[k].consumed - 1) : elides /\ Elidable(j)
        /\ ReadBefore(k) <= emitted[k].consumed
        /\ IF IsSome(emitted[k].token)
           THEN /\ emitted[k].consumed > ReadBefore(k)
                /\ emitted[k].token = Some(tokens[emitted[k].consumed])
                /\ ~(elides /\ Elidable(emitted[k].consumed))
           ELSE /\ emitted[k].consumed = Len(tokens)
                /\ emitted[k].consumed > ReadBefore(k) =>
                       (elides /\ Elidable(emitted[k].consumed))

C13_SgmlWitness ==
    /\ ~is_xml
    /\ Len(tokens) = 3
    /\ Elidable(3)
    /\ Len(emitted) = 3
    /\ emitted[3].token = Some(tokens[3])

-----------------------------------------------------------------------------
(* The closes of the fields of the STMTTRN blocks *)

\* the positions of the close keys written after the fields of the blocks
BlockCloses == {j \in DOMAIN tokens : ElidableAt(tokens, j) /\ InBlock(tokens, j)}

\* the document from position lo to position hi without those close keys
RECURSIVE WithoutBlockCloses(_, _)
WithoutBlockCloses(lo, hi) ==
    IF lo > hi THEN << >>
    ELSE IF lo = hi THEN IF lo \in BlockCloses THEN << >> ELSE <<tokens[lo]>>
    ELSE WithoutBlockCloses(lo, (lo + hi) \div 2)
         \o WithoutBlockCloses((lo + hi) \div 2 + 1, hi)

\* the loop of load has ended: a call returned an error or the end of the stream
Finished ==
    /\ returns # << >>
    /\ returns[Len(returns)].kind \in {"Err", "None"}

\* what the calls made gave: the transactions, in order, and the error if any
OutcomeOfCalls ==
    LET some == {i \in DOMAIN returns : returns[i].kind = "Some"} IN
    [transactions |-> [i \in 1..Cardinality(some) |-> Unwrap(returns[i].value)],
     failed |-> returns[Len(returns)].kind = "Err",
     error |-> returns[Len(returns)].error]

\* the file gives what the same file gives with the closes of the fields of
\* its blocks left out: the same transactions, and the same error or none
SameAsWithoutCloses ==
    OutcomeOfCalls = load_transactions(WithoutBlockCloses(1, Len(tokens)), is_xml)

C14_SgmlWitness ==
    /\ ~is_xml
    /\ BlockCloses # {}
    /\ Len(returns) = 1
    /\ returns[1].kind = "Err"
    /\ returns[1].consumed \in BlockCloses
    /\ ~load_transactions(WithoutBlockCloses(1, Len(tokens)), is_xml).failed

-----------------------------------------------------------------------------
(* Vocabulary of the loader properties, stated on the steps of the loop of  *)
(* import_file and on the tables                                            *)

\* this step is the loop of import_file run on a transaction of a file
Imports == read' = read + 1

\* the transaction of that step
Imported == Unwrap(last').transaction

\* the id of the transaction has a dot and its amount is zero
DottedZero(t) ==
    /\ t.transaction_id # NoneV
    /\ "." \in Range(t.transaction_id[1])
    /\ t.amount = 0

\* what the categorizer of the run says of the transaction that was last read
StatusOf(l) ==
    categorize(categorizer, l.account, l.transaction.name, l.transaction.transaction_type,
               l.transaction.memo)

Rows(table) == db[table].rows

RowCounts == [table \in DOMAIN db |-> Len(db[table].rows)]

\* both futures of the join have returned Ok: the walker is done and every
\* file it sent has been imported
Joined ==
    /\ load_pc \in {"files", "categories", "dates", "done"}
    /\ load_result # "Err"
    /\ walker.done
    /\ file_queue = << >>
    /\ imports = EmptyBag

\* C15: a transaction whose id has a dot and whose amount is zero is dropped
\* before it is classified: categorize is not called, no table gets a row and
\* load does not fail; a transaction with no id or with another amount is
\* never dropped so: categorize is called on it
C15_ExtraLineDropped ==
    [][Imports =>
          /\ DottedZero(Imported) =>
                 /\ categorize_calls' = categorize_calls
                 /\ db' = db
                 /\ load_result' = "Pending"
          /\ (Imported.transaction_id = NoneV \/ Imported.amount # 0) =>
                 categorize_calls' = categorize_calls + 1]_vars

\* a run that ends Ok after its one transaction, in a QFX-like file with a
\* dotted id and a zero amount, left every table but accounts empty
C15_Witness ==
    /\ load_result = "Ok"
    /\ read = 1
    /\ DottedZero(Unwrap(last).transaction)
    /\ categorize_calls = 0
    /\ Rows("transactions") = << >>
    /\ Rows("uncategorized_transactions") = << >>

\* C16: a transaction the categorizer leaves uncategorized, for want of a type
\* or of a rule, gets exactly one row in uncategorized_transactions and none in
\* transactions, and load goes on without an error
C16_UncategorizedRow ==
    [][(Imports /\ ~DottedZero(Imported)
        /\ StatusOf(Unwrap(last')).kind \in {"MissingType", "MissingRule"}) =>
          /\ Len(Rows("uncategorized_transactions"))' =
                 Len(Rows("uncategorized_transactions")) + 1
          /\ Rows("transactions")' = Rows("transactions")
          /\ load_result' = "Pending"]_vars

\* load has failed on an uncategorized transaction, and the table has no row
C16_Witness ==
    /\ load_result = "Err"
    /\ last # NoneV
    /\ ~DottedZero(Unwrap(last).transaction)
    /\ categorizer.status = "ok"
    /\ StatusOf(Unwrap(last)).kind = "MissingRule"
    /\ Rows("uncategorized_transactions") = << >>

\* C17: a transaction categorized by a rule with ignore = true gets no row in
\* either table and leaves the dates of its file, and those of the run, as
\* they were
C17_IgnoredSkipped ==
    [][(Imports /\ ~DottedZero(Imported)
        /\ StatusOf(Unwrap(last')).kind = "Categorized"
        /\ StatusOf(Unwrap(last')).value.ignore) =>
          /\ db' = db
          /\ imports' = imports
          /\ dates' = dates
          /\ load_result' = "Pending"]_vars

\* a run that ends Ok: a purchase of day 2 inserted, then a fee of day 1
\* ignored; the range of the run is day 2 alone
C17_Witness ==
    /\ load_result = "Ok"
    /\ read = 2
    /\ StatusOf(Unwrap(last)).kind = "Categorized"
    /\ StatusOf(Unwrap(last)).value.ignore
    /\ Unwrap(last).transaction.date_posted = 1
    /\ Len(Rows("transactions")) = 1
    /\ dates = <<2, 2>>

\* C18: once every file has completed, the dates import_files returns bound
\* the date of every row of transactions, in whatever order the files merged
C18_DatesBoundRows ==
    Joined =>
        \A i \in DOMAIN Rows("transactions") :
            /\ dates[1] <= Rows("transactions")[i].date_str
            /\ Rows("transactions")[i].date_str <= dates[2]

\* two files completed, the row of day 3 inserted before the row of day 1
C18_Witness ==
    /\ Joined
    /\ Len(completed) = 2
    /\ Len(Rows("transactions")) = 2
    /\ Rows("transactions")[1].date_str = 3
    /\ Rows("transactions")[2].date_str = 1
    /\ Unwrap(last).file_path = completed[1]
    /\ dates = <<1, 3>>

\* C19: when load ends with step = Done and a transaction was inserted, the
\* dates table has a row for every day from the first date to the last
C19_DatesFilled ==
    (step = "Done" /\ Rows("transactions") # << >>) =>
        \A d \in dates[1]..dates[2] :
            \E i \in DOMAIN Rows("dates") : Rows("dates")[i].date_str = d

\* load is Done, rows of days 1 and 3 were inserted, and dates has no row
C19_Witness ==
    /\ step = "Done"
    /\ load_result = "Ok"
    /\ dates = <<1, 3>>
    /\ Len(Rows("transactions")) = 2
    /\ Rows("dates") = << >>

\* C20: total_count counts each pair once, before it is sent; loaded_count
\* counts each file whose import_file returned Ok once, and no file that
\* failed; after a run that ends Ok both are the number of files sent
C20_Counts ==
    /\ [](/\ total_count = Len(sent) + (IF walker.sending = NoneV THEN 0 ELSE 1)
          /\ loaded_count = Len(completed)
          /\ load_result = "Ok" =>
                 /\ loaded_count = total_count
                 /\ total_count = Len(sent))
    /\ [][/\ sent' # sent =>
                 /\ walker.sending # NoneV
                 /\ sent' = Append(sent, walker.sending[1])
                 /\ total_count' = total_count
          /\ total_count' # total_count =>
                 /\ total_count' = total_count + 1
                 /\ walker.sending = NoneV
                 /\ walker'.sending # NoneV
          /\ loaded_count' # loaded_count =>
                 /\ loaded_count' = loaded_count + 1
                 /\ load_result' = "Pending"
                 /\ \E import \in BagToSet(imports) :
                        /\ imports' = imports (-) SetToBag({import})
                        /\ completed' = Append(completed, import.file_path)
          /\ load_result' = "Err" => loaded_count' = loaded_count]_vars

\* a run that ends Ok with two files sent and both counters at two
C20_Witness ==
    /\ load_result = "Ok"
    /\ Len(sent) = 2
    /\ total_count = 2
    /\ loaded_count = 2

\* load has failed in a file after another completed: one of two is counted
C20_FailedWitness ==
    /\ load_result = "Err"
    /\ total_count = 2
    /\ loaded_count = 1
    /\ BagCardinality(imports) = 1

\* the rows of the table before the step are the first rows of the table after
RowsKept(table) ==
    /\ Len(Rows(table)) <= Len(Rows(table)')
    /\ SubSeq(Rows(table)', 1, Len(Rows(table))) = Rows(table)

\* load has left the join for the post-phase
PostPhase == load_pc \in {"categories", "dates", "done"}

\* C21: categories and dates have no row until the walker has returned, the
\* channel is drained and every import_file has returned Ok: load enters the
\* post-phase only from the state in which the join returns Ok, and a step
\* that adds a row to either table is a step of the post-phase
C21_PostPhaseAfterJoin ==
    /\ []((PostPhase \/ Rows("categories") # << >> \/ Rows("dates") # << >>) =>
              /\ walker.done /\ walker.sending = NoneV
              /\ file_queue = << >>
              /\ imports = EmptyBag
              /\ Len(completed) = Len(sent)
              /\ load_error = NoneV)
    /\ [][(Rows("categories")' # Rows("categories") \/ Rows("dates")' # Rows("dates")) =>
              /\ load_pc \in {"files", "categories"}
              /\ PostPhase'
              /\ walker.done
              /\ file_queue = << >>
              /\ imports = EmptyBag]_vars

\* the categories were inserted after two files, one with a row, completed
C21_Witness ==
    /\ Rows("categories") # << >>
    /\ Len(completed) = 2
    /\ Len(sent) = 2
    /\ Rows("transactions") # << >>
    /\ load_pc = "categories"

\* C22: after an error of a worker or of the walker load has returned the
\* error and nothing runs any more: step stays LoadingFiles, categories and
\* dates stay empty, and the step that fails keeps every row written before
C22_ErrorEndsLoad ==
    /\ []((load_result = "Err" /\ load_pc = "files") =>
              /\ load_error # NoneV
              /\ step = "LoadingFiles"
              /\ Rows("categories") = << >>
              /\ Rows("dates") = << >>)
    /\ [][/\ load_result # "Err"
          /\ load_result' = "Err" => \A table \in DOMAIN db : RowsKept(table)]_vars

\* a reader failed after another file completed and a row was written
C22_Witness ==
    /\ load_result = "Err"
    /\ load_pc = "files"
    /\ load_error = Some("Failed to read transactions")
    /\ step = "LoadingFiles"
    /\ Len(completed) = 1
    /\ Len(Rows("transactions")) = 1
    /\ Rows("accounts") # << >>

\* the walker failed while a file with a row written was being imported
C22_WalkerWitness ==
    /\ load_result = "Err"
    /\ load_error = Some("next_entry")
    /\ step = "LoadingFiles"
    /\ imports # EmptyBag
    /\ Len(Rows("transactions")) = 1

\* C23: the channel never holds more than 8 pairs and never more than 8
\* import_file futures are running, however many files the walker finds
C23_FanOutBounded ==
    /\ Len(file_queue) <= 8
    /\ BagCardinality(imports) <= 8
    /\ handles(imports) <= 8

\* 8 files are being imported, 8 pairs are queued and the walker waits to
\* send the next one
C23_Witness ==
    /\ BagCardinality(imports) = 8
    /\ Len(file_queue) = 8
    /\ walker.sending # NoneV
    /\ total_count = FanOutFiles

\* the row is the row of transactions written for the transaction of an
\* account
RowOf(row, account, t) ==
    /\ row.account = account
    /\ row.name = t.name
    /\ row.date_str = t.date_posted
    /\ row.amount = t.amount
    /\ row.transaction_id = t.transaction_id
    /\ row.transaction_type = t.transaction_type

\* the step adds nothing to the table, or one row at its end
AtMostOneRowAdded(table) ==
    \/ Rows(table)' = Rows(table)
    \/ /\ Len(Rows(table)') = Len(Rows(table)) + 1
       /\ RowsKept(table)

\* C24: the rows of transactions and of uncategorized_transactions are written
\* by the step that pulls their transaction from the stream of its file, at
\* most one row in a step, at the end of its table: the rows of a file are in
\* the order in which the file yielded them, whatever the other files do
C24_WritesInFileOrder ==
    [][/\ Imports =>
              /\ AtMostOneRowAdded("transactions")
              /\ AtMostOneRowAdded("uncategorized_transactions")
              /\ \/ Rows("transactions")' = Rows("transactions")
                 \/ Rows("uncategorized_transactions")' = Rows("uncategorized_transactions")
              /\ Rows("transactions")' # Rows("transactions") =>
                     RowOf(Rows("transactions")'[Len(Rows("transactions")')],
                           Unwrap(last').account, Imported)
              /\ Rows("uncategorized_transactions")' # Rows("uncategorized_transactions") =>
                     Rows("uncategorized_transactions")'
                         [Len(Rows("uncategorized_transactions")')].account
                     = Unwrap(last').account
       /\ ~Imports =>
              /\ Rows("transactions")' = Rows("transactions")
              /\ Rows("uncategorized_transactions")' = Rows("uncategorized_transactions")
      ]_vars

\* the one file of the run yielded the purchase of day 3 and then that of
\* day 1, and the rows are in that order
C24_Witness ==
    /\ Len(sent) = 1
    /\ read = 2
    /\ Len(Rows("transactions")) = 2
    /\ Rows("transactions")[1].date_str = 3
    /\ Rows("transactions")[2].date_str = 1
    /\ Unwrap(last).transaction.date_posted = 1

\* two files are open and each has written one row: the row of one was
\* written between the opening of the other and its first row
C24_InterleavedWitness ==
    /\ Cardinality(BagToSet(imports)) = 2
    /\ handles(imports) = 2
    /\ Len(Rows("transactions")) = 2
    /\ \A import \in BagToSet(imports) :
           /\ import.first_date = import.last_date
           /\ \E i \in DOMAIN Rows("transactions") :
                  Rows("transactions")[i].date_str = import.first_date

\* C25: accounts has one row for each name, whatever the number of files of
\* the account and the order of their imports; every import that has opened
\* its file has found or written the row of its account, and load never fails
\* on the insert
C25_OneAccountRow ==
    /\ \A i, j \in DOMAIN Rows("accounts") :
           Rows("accounts")[i].name = Rows("accounts")[j].name => i = j
    /\ \A import \in BagToSet(imports) :
           IsSome(import.reader) =>
               \E i \in DOMAIN Rows("accounts") :
                   Rows("accounts")[i].name = import.account_name
    /\ load_error # Some("Failed to add account")

\* 8 files of the same account are open at once after others completed, and
\* accounts has one row
C25_Witness ==
    /\ handles(imports) = 8
    /\ \A import \in BagToSet(imports) : import.account_name = "chequing"
    /\ completed # << >>
    /\ Len(Rows("accounts")) = 1
    /\ load_result = "Pending"

\* the two characters are the same letter, in either case
SameLetter(a, b) ==
    \E k \in DOMAIN AsciiUpper : {a, b} \subseteq {AsciiUpper[k], AsciiLower[k]}

\* the file name is a stem, a dot and the word, in any case
HasExtension(file_name, word) ==
    /\ Len(file_name) >= Len(word) + 2
    /\ file_name[Len(file_name) - Len(word)] = "."
    /\ \A i \in DOMAIN word : SameLetter(file_name[Len(file_name) - Len(word) + i], word[i])

\* the file name has no dot after its first character
NoExtension(file_name) == \A i \in DOMAIN file_name : file_name[i] = "." => i = 1

\* the name of the import ends in .qfx or in .csv, in any case
ReaderOf(import) ==
    IF HasExtension(import.file_path.name, <<"q", "f", "x">>) THEN Some("qfx")
    ELSE IF HasExtension(import.file_path.name, <<"c", "s", "v">>) THEN Some("csv")
    ELSE NoneV

\* the imports that have not opened their file
Unopened == {import \in BagToSet(imports) : import.reader = NoneV}

\* C26: an import has the QFX reader only if its path ends in .qfx and the CSV
\* reader only if it ends in .csv, in whatever case; load fails with
\* "Unrecognized file type" only on a path with another extension and with
\* "File missing extension" only on a path without one, and then no table
\* changes; a row is only ever written for a file with one of the two
\* extensions
C26_ReaderByExtension ==
    /\ [](\A import \in BagToSet(imports) :
              import.reader # NoneV => import.reader = ReaderOf(import))
    /\ [][/\ (load_error = NoneV /\ load_error' = Some("Unrecognized file type")) =>
                 /\ db' = db
                 /\ \E import \in Unopened :
                        /\ ReaderOf(import) = NoneV
                        /\ ~NoExtension(import.file_path.name)
          /\ (load_error = NoneV /\ load_error' = Some("File missing extension")) =>
                 /\ db' = db
                 /\ \E import \in Unopened : NoExtension(import.file_path.name)
          /\ (\E import \in Unopened : import \notin BagToSet(imports')) =>
                 \E import \in Unopened : ReaderOf(import) # NoneV
          /\ Imports =>
                 ReaderOf([file_path |-> Unwrap(last').file_path]) # NoneV]_vars

\* a file named .Csv is open with the CSV reader and has written a row
C26_Witness ==
    /\ \E import \in BagToSet(imports) :
           /\ import.reader = Some("csv")
           /\ import.file_path.name = <<"1", ".", "C", "s", "v">>
           /\ import.first_date <= import.last_date
    /\ Len(Rows("transactions")) = 1

\* load failed on the extension of a text file after another file wrote a row
C26_UnrecognizedWitness ==
    /\ load_error = Some("Unrecognized file type")
    /\ Unopened = {NewImport(<<"chequing", [dir |-> <<"chequing">>,
                                           name |-> <<"2", ".", "t", "x", "t">>]>>)}
    /\ Len(Rows("transactions")) = 1

\* load failed on a name that starts with its only dot, with no row written
C26_MissingWitness ==
    /\ load_error = Some("File missing extension")
    /\ \E import \in Unopened : import.file_path.name = <<".", "q", "f", "x", "1">>
    /\ Rows("accounts") = << >>

\* the join has nothing left to wait for
Drained ==
    /\ load_pc = "files"
    /\ load_result = "Pending"
    /\ walker.done
    /\ file_queue = << >>
    /\ imports = EmptyBag

\* C28: under fair scheduling load returns: it returns Ok unless an operation
\* has failed, and it returns Ok with step = Done and every file the walker
\* sent imported; the walker that waits to send, the 8 workers and the pool
\* never wait for each other for ever, and once the walker has returned and
\* the channel and the workers are empty the stream ends and load goes on
C28_LoadCompletes ==
    /\ <>(load_result = "Ok" \/ load_error # NoneV)
    /\ Drained ~> (load_pc # "files")
    /\ [](load_result = "Ok" =>
              /\ step = "Done"
              /\ load_error = NoneV
              /\ walker.done
              /\ Len(completed) = Len(sent)
              /\ loaded_count = total_count)
    /\ [](load_error # NoneV => load_result = "Err")

\* load returned Ok after the FanOutFiles files were imported, more than the
\* channel and the workers hold together
C28_Witness ==
    /\ load_result = "Ok"
    /\ step = "Done"
    /\ Len(completed) = FanOutFiles
    /\ loaded_count = FanOutFiles

\* the walker waits to send while the channel is full, the 8 workers run and
\* every handle of the pool is taken
C28_BlockedWitness ==
    /\ walker.sending # NoneV
    /\ Len(file_queue) = ChannelCapacity
    /\ handles(imports) = max_connections
    /\ load_result = "Pending"

-----------------------------------------------------------------------------
(* Vocabulary of the header properties, stated on the line a step reads    *)

\* the nine keys with the local of read_sgml_header that each sets and the
\* values that are accepted for it
HeaderKeys ==
    {[key |-> OFXHEADER, local |-> "ofxheader",
      accepted |-> {<<"1", "0", "0">>, <<"+", "0", "1", "0", "0">>}],
     [key |-> DATA, local |-> "data", accepted |-> {OFXSGML}],
     [key |-> VERSION, local |-> "version", accepted |-> {<<"1", "0", "2">>}],
     [key |-> SECURITY, local |-> "security", accepted |-> {NONE}],
     [key |-> ENCODING, local |-> "encoding", accepted |-> {USASCII}],
     [key |-> CHARSET, local |-> "charset", accepted |-> {<<"1", "2", "5", "2">>}],
     [key |-> COMPRESSION, local |-> "compression", accepted |-> {NONE}],
     [key |-> OLDFILEUID, local |-> "oldfileuid", accepted |-> {NONE}],
     [key |-> NEWFILEUID, local |-> "newfileuid", accepted |-> {NONE}]}

\* the line gives the key
GivesKey(line, k) == starts_with(trim_ascii(line), k.key \o <<":">>)

\* the line gives the key with an accepted value
Accepts(line, k) ==
    \E v \in k.accepted :
        \/ trim_ascii(line) = k.key \o <<":">> \o v
        \/ starts_with(trim_ascii(line), k.key \o <<":">> \o v \o <<":">>)

\* the line is empty, or there is no line left
Blank(line) == \A i \in DOMAIN line : is_ascii_whitespace(line[i])

\* a line has given the key
Given(h, k) ==
    IF k.local \in {"ofxheader", "version", "charset"}
    THEN h[k.local] # NoneV
    ELSE h[k.local]

HeaderFailed(h) == h.result # NoneV /\ ~Unwrap(h.result).ok

\* QfxReader::open has accepted the header
HeaderAccepted(h) == h.open # NoneV /\ Unwrap(h.open).ok

\* C27: a line that gives a key again, a line whose key is none of the nine,
\* and the blank line or the end of the input while one of the nine is
\* missing, make read_sgml_header fail; a line with a value other than the
\* accepted one makes it, or the check of QfxReader::open after it, fail; the
\* header is accepted only after the nine keys were given once each with
\* their accepted values, that is with OFXHEADER 100 and VERSION 102
C27_SgmlHeader ==
    /\ [][header'.line # header.line =>
              LET line == Unwrap(header'.line) IN
              /\ \A k \in HeaderKeys :
                     (GivesKey(line, k) /\ Given(header, k)) => HeaderFailed(header')
              /\ (~Blank(line) /\ \A k \in HeaderKeys : ~GivesKey(line, k)) =>
                     HeaderFailed(header')
              /\ \A k \in HeaderKeys :
                     (GivesKey(line, k) /\ ~Accepts(line, k)) =>
                         \/ HeaderFailed(header')
                         \/ /\ k.key = OFXHEADER
                            /\ header'.ofxheader # Some(<<"1", "0", "0">>)
                         \/ /\ k.key = VERSION
                            /\ header'.version # Some(<<"1", "0", "2">>)
              /\ (Blank(line) /\ \E k \in HeaderKeys : ~Given(header, k)) =>
                     HeaderFailed(header')
              /\ \A k \in HeaderKeys :
                     (GivesKey(line, k) /\ Accepts(line, k) /\ ~Given(header, k)) =>
                         /\ ~HeaderFailed(header')
                         /\ Given(header', k)]_vars
    /\ [](HeaderAccepted(header) =>
              /\ \A k \in HeaderKeys : Given(header, k)
              /\ header.ofxheader = Some(<<"1", "0", "0">>)
              /\ header.version = Some(<<"1", "0", "2">>)
              /\ Blank(Unwrap(header.line)))
    /\ []((header.open # NoneV /\ header.result # NoneV /\ ~HeaderFailed(header)
           /\ header.ofxheader = Some(<<"1", "0", "0">>)
           /\ header.version = Some(<<"1", "0", "2">>)) => HeaderAccepted(header))

\* the header is accepted at the end of the input, after nine lines
C27_Witness ==
    /\ HeaderAccepted(header)
    /\ header.line = Some(<< >>)
    /\ Unwrap(header.open).encoding = "Windows1252"

\* the second line that gives DATA has failed
C27_RepeatedWitness ==
    /\ header.data
    /\ header.line = Some(HeaderLine(DATA, OFXSGML))
    /\ header.result = Some([ok |-> FALSE, error |-> "Repeated header"])

\* the blank line came while CHARSET alone was missing
C27_MissingWitness ==
    /\ header.line = Some(<<"\r", "\n">>)
    /\ header.result = Some([ok |-> FALSE, error |-> "Header 'CHARSET' missing"])

\* the nine keys were given, with VERSION 103, and the header is refused
C27_VersionWitness ==
    /\ header.open = Some([ok |-> FALSE, error |-> "Unsupported version"])
    /\ header.version = Some(<<"1", "0", "3">>)

-----------------------------------------------------------------------------
(* Vocabulary of the tokenizer properties, stated on the bytes of the file *)
(* and on what the calls of Lexer::next returned                           *)

FileData == Unwrap(bytes_lexer).data

\* the index of the '>' that ends the key whose '<' is the byte at index k,
\* or the length of the file if the file ends in the key
KeyEnd(data, k) ==
    IF \E i \in (k + 2)..Len(data) : data[i] = ">"
    THEN (CHOOSE i \in (k + 2)..Len(data) :
              data[i] = ">" /\ \A j \in (k + 2)..(i - 1) : data[j] # ">") - 1
    ELSE Len(data)

\* in the key that starts at index k: a '<'; a '/' that does not follow the
\* '<' of the key at once, as any '/' of an open key elsewhere and the second
\* '/' of a close key are; no '>' up to the end of the file
OpensInKey(data, k) == \E i \in (k + 2)..KeyEnd(data, k) : data[i] = "<"

SlashInKey(data, k) == \E i \in (k + 3)..KeyEnd(data, k) : data[i] = "/"

EndsInKey(data, k) == KeyEnd(data, k) = Len(data)

BadKey(data, k) == OpensInKey(data, k) \/ SlashInKey(data, k) \/ EndsInKey(data, k)

KeyErrors == {"Start of key inside key", "Slash in key name", "End of file in key"}

\* the bytes from the index from on
RestOf(data, from) == SubSeq(data, from + 1, Len(data))

\* the step is a call of Lexer::next on the bytes
Lexes == lexed' # lexed

LastLexed == lexed'[Len(lexed')]

\* C29: a call of Lexer::next that meets a key with a '<' in it, with a '/'
\* anywhere but right after its '<', or cut by the end of the file, returns an
\* error and no token, "End of file in key" if the end of the file is all
\* that is wrong with the key; no token is returned from beyond such a key,
\* and no such error is returned without such a key; a call at a rest of the
\* file with no tag character in it returns the rest, stripped, as a Value
\* and consumes the file
C29_KeyErrors ==
    [][Lexes =>
          LET data == FileData
              from == Unwrap(bytes_lexer).consumed
              upto == Unwrap(bytes_lexer').consumed
          IN  /\ lexed' = Append(lexed, LastLexed)
              /\ (from < Len(data) /\ data[from + 1] = "<" /\ BadKey(data, from)) =>
                     /\ LastLexed.kind = "Err"
                     /\ LastLexed.error \in KeyErrors
                     /\ (~OpensInKey(data, from) /\ ~SlashInKey(data, from)) =>
                            LastLexed.error = "End of file in key"
              /\ LastLexed.kind \notin {"Err"} =>
                     \A k \in from..(upto - 1) : data[k + 1] = "<" => ~BadKey(data, k)
              /\ (LastLexed.kind = "Err" /\ LastLexed.error \in KeyErrors) =>
                     /\ upto < Len(data)
                     /\ data[upto + 1] = "<"
                     /\ BadKey(data, upto)
              /\ (/\ from < Len(data)
                  /\ \A i \in (from + 1)..Len(data) : data[i] \notin {"<", ">"}
                  /\ trim_ascii(RestOf(data, from)) # << >>) =>
                     /\ LastLexed = [kind |-> "Value",
                                     text |-> trim_ascii(RestOf(data, from))]
                     /\ upto = Len(data)]_vars

\* after the value a, the close key with a second '/' has failed
C29_Witness ==
    /\ FileData = <<"a", "<", "/", "a", "/">>
    /\ lexed = << [kind |-> "Value", text |-> <<"a">>],
                  [kind |-> "Err", error |-> "Slash in key name"] >>

\* the file ends in its second key
C29_EndOfFileWitness ==
    /\ FileData = <<"<", "a", ">", "<", "a">>
    /\ lexed = << [kind |-> "OpenKey", text |-> <<"a">>],
                  [kind |-> "Err", error |-> "End of file in key"] >>

\* the file ends in a value, which is returned without its spaces
C29_ValueWitness ==
    /\ FileData = <<"<", "a", ">", " ", "a">>
    /\ lexed = << [kind |-> "OpenKey", text |-> <<"a">>],
                  [kind |-> "Value", text |-> <<"a">>] >>
    /\ Unwrap(bytes_lexer).consumed = 5

\* the byte at position i is whitespace in a text between two tags, or
\* between a tag and an end of the file, that is all whitespace
InBlankText(data, i) ==
    LET before == {j \in 1..(i - 1) : ~is_ascii_whitespace(data[j])}
        after == {j \in (i + 1)..Len(data) : ~is_ascii_whitespace(data[j])}
    IN  /\ is_ascii_whitespace(data[i])
        /\ before # {} => data[CHOOSE j \in before : \A k \in before : k <= j] = ">"
        /\ after # {} => data[CHOOSE j \in after : \A k \in after : j <= k] = "<"

\* the file without the texts that are all whitespace
RECURSIVE WithoutBlankTexts(_, _)
WithoutBlankTexts(data, i) ==
    IF i > Len(data) THEN << >>
    ELSE (IF InBlankText(data, i) THEN << >> ELSE <<data[i]>>)
         \o WithoutBlankTexts(data, i + 1)

\* what the calls of Lexer::next return, up to the first that returns no token
RECURSIVE lex_all(_)
lex_all(lx) ==
    LET r == Lexer_next(lx) IN
    IF r.result.kind \in {"None", "Err"} THEN <<r.result>>
    ELSE <<r.result>> \o lex_all(r.lexer)

\* C30: a Value that Lexer::next returns is not empty and neither starts nor
\* ends with ASCII whitespace; and the calls return what they would return on
\* the file without its texts that are all whitespace: such a text gives no
\* token and changes none of the tokens after it
C30_ValuesStripped ==
    /\ \A i \in DOMAIN lexed :
           lexed[i].kind = "Value" =>
               /\ lexed[i].text # << >>
               /\ ~is_ascii_whitespace(lexed[i].text[1])
               /\ ~is_ascii_whitespace(lexed[i].text[Len(lexed[i].text)])
    /\ LET plain == lex_all(Lexer_new_bytes(WithoutBlankTexts(FileData, 1),
                                            Unwrap(bytes_lexer).hide_field_close))
       IN  /\ Len(lexed) <= Len(plain)
           /\ lexed = SubSeq(plain, 1, Len(lexed))

\* an XML file: the value of the field a, with whitespace after it, then the
\* close of the field, hidden, and a text of whitespace
C30_Witness ==
    /\ FileData = <<"<", "a", ">", "a", " ", "b", "\n", "<", "/", "a", ">", "\t", "\r">>
    /\ Unwrap(bytes_lexer).hide_field_close
    /\ lexed = << [kind |-> "OpenKey", text |-> <<"a">>],
                  [kind |-> "Value", text |-> <<"a", " ", "b">>],
                  [kind |-> "None"] >>

\* a text of whitespace between an open key and its close, which is not
\* hidden: no value came before it
C30_BlankFieldWitness ==
    /\ FileData = <<"<", "a", ">", "\t", "\r", "<", "/", "a", ">">>
    /\ Unwrap(bytes_lexer).hide_field_close
    /\ lexed = << [kind |-> "OpenKey", text |-> <<"a">>],
                  [kind |-> "CloseKey", text |-> <<"a">>],
                  [kind |-> "None"] >>

-----------------------------------------------------------------------------
(* The end of the document *)

\* the positions of </OFX> in the file
OfxCloses == {k \in DOMAIN tokens : tokens[k] = CloseKey("OFX")}

\* C31: a call returns the end of the stream only when </OFX> is the last
\* token of the file and every token has been read; a call that reads past an
\* </OFX> with a token after it fails with "Unexpected token at end of file"
\* on that token; and every call after one that returned the end of the
\* stream returns it again and reads no token
C31_EndOfInput ==
    \A i \in DOMAIN returns :
        /\ returns[i].kind = "None" =>
               /\ tokens # << >>
               /\ tokens[Len(tokens)] = CloseKey("OFX")
               /\ returns[i].consumed = Len(tokens)
               /\ \A j \in (i + 1)..Len(returns) : returns[j] = returns[i]
        /\ \A k \in OfxCloses :
               (k < Len(tokens) /\ returns[i].consumed > k) =>
                   /\ returns[i].kind = "Err"
                   /\ returns[i].error =
                          <<E("Unexpected token at end of file", tokens[k + 1].text)>>
                   /\ returns[i].consumed = k + 1

\* a statement of one block with a token after </OFX>: the transaction was
\* returned, and the next call failed on the token
C31_Witness ==
    /\ Len(returns) = 2
    /\ returns[1].kind = "Some"
    /\ returns[2].kind = "Err"
    /\ \E k \in OfxCloses : k < Len(tokens) /\ returns[2].consumed = k + 1

\* the end of the stream returned twice
C31_AbsorbingWitness ==
    /\ Len(returns) = 3
    /\ returns[1].kind = "Some"
    /\ returns[2].kind = "None"
    /\ returns[3].kind = "None"
    /\ parser.state = "ReadClose"

-----------------------------------------------------------------------------
(* The display name and the patterns *)

\* the display name of a call under a selected type configuration as the name
\* source yields it, before it is trimmed
RawDisplayOf(c, h) ==
    IF c.name_source = "Name" THEN Some(h.name)
    ELSE IF c.name_source = "Memo" THEN h.memo
    ELSE IF c.mode = "Prefix"
    THEN Some(SubSeq(h.name, Len(Unwrap(c.prefix)) + 1, Len(h.name)))
    ELSE NoneV

\* the patterns of the rules of the user type of a type configuration
PatternsOf(c) ==
    UNION {Range(r.patterns) : r \in {x \in Range(rules) :
                                          x.transaction_type = c.transaction_type}}

Spaces(s, lo, hi) == \A i \in lo..hi : s[i] = " "

\* s is p, or p with whitespace before it, after it or both
SurroundedBy(s, p) ==
    \E lo \in 1..(Len(s) + 1) :
        /\ lo + Len(p) - 1 <= Len(s)
        /\ SubSeq(s, lo, lo + Len(p) - 1) = p
        /\ Spaces(s, 1, lo - 1)
        /\ Spaces(s, lo + Len(p), Len(s))

\* s without the whitespace before it and after it
Bare(s) ==
    IF Spaces(s, 1, Len(s)) THEN << >>
    ELSE LET solid == {i \in DOMAIN s : s[i] # " "}
             lo == CHOOSE i \in solid : \A j \in solid : i <= j
             hi == CHOOSE i \in solid : \A j \in solid : j <= i
         IN  SubSeq(s, lo, hi)

\* a call that no configured prefix and no source type of the account match
\* has no decoder, whatever prefix its trimmed name starts with
UntrimmedPrefixMatch ==
    \A h \in LoaderCalls :
        (PrefixHits(h) = {} /\ ~TypeHit(h)) =>
            h.result = MissingType(h.account, h.transaction_tye, h.name)

\* a display name that no pattern equals once it is trimmed gives MissingRule
\* with the user type of the decoder and the trimmed display name
MissingRuleTrimmed ==
    \A h \in LoaderCalls : \A c \in SelectedConfigs(h) :
        (/\ IsSome(RawDisplayOf(c, h))
         /\ Bare(Unwrap(RawDisplayOf(c, h))) \notin PatternsOf(c)) =>
            h.result = MissingRule(h.account, c.transaction_type,
                                   Bare(Unwrap(RawDisplayOf(c, h))))

\* C32 as stated: a display name that is a pattern of the decoder with
\* whitespace around it, or none, is Categorized; one that once trimmed is no
\* pattern gives MissingRule with the user type of the decoder and the
\* trimmed display name; the prefix is matched on the name as it is
C32_SurroundedIsCategorized ==
    BuiltOk =>
        /\ \A h \in LoaderCalls : \A c \in SelectedConfigs(h) :
               (/\ IsSome(RawDisplayOf(c, h))
                /\ \E p \in PatternsOf(c) : SurroundedBy(Unwrap(RawDisplayOf(c, h)), p)) =>
                   h.result.kind = "Categorized"
        /\ MissingRuleTrimmed
        /\ UntrimmedPrefixMatch

\* C32: a display name is Categorized exactly when, once trimmed, it equals a
\* pattern of the decoder, so a pattern with whitespace at either end is
\* matched by no name, not even by the name equal to it; otherwise the result
\* is MissingRule with the user type of the decoder and the trimmed display
\* name; the prefix is matched on the name as it is
C32_TrimmedEqualsPattern ==
    BuiltOk =>
        /\ \A h \in LoaderCalls : \A c \in SelectedConfigs(h) :
               IsSome(RawDisplayOf(c, h)) =>
                   (h.result.kind = "Categorized"
                        <=> Bare(Unwrap(RawDisplayOf(c, h))) \in PatternsOf(c))
        /\ MissingRuleTrimmed
        /\ UntrimmedPrefixMatch

\* the name " B" against the pattern "B": Categorized
C32_Witness ==
    \E h \in LoaderCalls : \E c \in SelectedConfigs(h) :
        /\ c.name_source = "Name"
        /\ h.name = <<" ", "B">>
        /\ <<"B">> \in PatternsOf(c)
        /\ h.result.kind = "Categorized"

\* the name "B " against the pattern "B " alone: MissingRule on "B"
C32_PatternWitness ==
    \E h \in LoaderCalls : \E c \in SelectedConfigs(h) :
        /\ c.name_source = "Name"
        /\ h.name = <<"B", " ">>
        /\ PatternsOf(c) = {<<"B", " ">>}
        /\ h.result = MissingRule("chequing", "DebitPurchase", <<"B">>)

\* the name " AB" with the prefix "A" configured: no decoder
C32_PrefixWitness ==
    \E h \in LoaderCalls :
        /\ h.name = <<" ", "A", "B">>
        /\ <<"A">> \in ConfiguredPrefixes(h.account)
        /\ h.result.kind = "MissingType"

-----------------------------------------------------------------------------
(* The prefix of a decoder selected through the prefix map *)

\* C33: no call fails with PrefixNotContained; a call whose decoder is selected
\* through a prefix and takes the display name from the rest of the name
\* returns a status, Categorized or MissingRule, on the name without the prefix
C33_PrefixContained ==
    \A h \in LoaderCalls :
        /\ h.result.kind = "Err" => h.result.value.error # "PrefixNotContained"
        /\ \A c \in SelectedConfigs(h) :
               (c.mode = "Prefix" /\ c.name_source = "NameSuffix") =>
                   /\ h.result.kind \in {"Categorized", "MissingRule"}
                   /\ h.result.kind = "MissingRule" =>
                          h.result.value.display = Bare(Unwrap(RawDisplayOf(c, h)))

\* the shorter of two configured prefixes selected: the name "A B" with the
\* prefixes "A" and "AB", and the display name "B"
C33_Witness ==
    \E h \in LoaderCalls : \E c \in SelectedConfigs(h) :
        /\ c.name_source = "NameSuffix"
        /\ c.prefix = Some(<<"A">>)
        /\ <<"A", "B">> \in ConfiguredPrefixes(h.account)
        /\ h.name = <<"A", " ", "B">>
        /\ h.result.kind = "Categorized"

-----------------------------------------------------------------------------
(* The counters and the progress *)

ProgressDuringFiles == {r \in Range(progress_returns) : r.step = "LoadingFiles"}

\* C34: loaded_count never exceeds total_count, and every value progress
\* returns for the step LoadingFiles is at least 10 and at most 95, whatever
\* load did between the reads of the call
C34_CountsAndProgress ==
    /\ loaded_count <= total_count
    /\ \A r \in ProgressDuringFiles :
           /\ le(Fraction(10, 1), r.value)
           /\ le(r.value, Fraction(95, 1))

\* a call that read loaded_count when one file was done and total_count after
\* the walker had counted the last file: 10 + 85/3
C34_Witness ==
    \E r \in ProgressDuringFiles :
        /\ r.loaded = 1
        /\ r.total = ProgressFiles
        /\ r.value = Fraction(10 * ProgressFiles + 85, ProgressFiles)

\* every file counted is done, and the step is still LoadingFiles: 95
C34_AllLoadedWitness ==
    \E r \in ProgressDuringFiles :
        /\ r.total = ProgressFiles
        /\ r.loaded = r.total
        /\ le(Fraction(95, 1), r.value)

\* C35 as stated: of two calls of progress the later returns no less
C35_NeverDecreases ==
    \A i, j \in DOMAIN progress_returns :
        i < j => le(progress_returns[i].value, progress_returns[j].value)

\* C35: of two calls of progress the later returns no less if the two read
\* different steps, or read the same total_count; the later returns less when
\* the walker counted files between them and too few were done meanwhile
C35_NeverDecreasesButByTotal ==
    \A i, j \in DOMAIN progress_returns :
        i < j =>
            /\ (\/ progress_returns[i].step # progress_returns[j].step
                \/ progress_returns[i].total = progress_returns[j].total) =>
                   le(progress_returns[i].value, progress_returns[j].value)
            /\ (/\ progress_returns[i].step = "LoadingFiles"
                /\ progress_returns[j].step = "LoadingFiles") =>
                   /\ progress_returns[i].loaded <= progress_returns[j].loaded
                   /\ progress_returns[i].total <= progress_returns[j].total

\* two calls during LoadingFiles with every file counted, a file done between
\* them, and the later value the greater
C35_Witness ==
    \E i, j \in DOMAIN progress_returns :
        /\ i < j
        /\ progress_returns[i].step = "LoadingFiles"
        /\ progress_returns[j].step = "LoadingFiles"
        /\ progress_returns[i].total = ProgressFiles
        /\ progress_returns[j].total = ProgressFiles
        /\ progress_returns[i].loaded < progress_returns[j].loaded
        /\ ~le(progress_returns[j].value, progress_returns[i].value)

\* 95 with one file counted and done, then 52.5 with a second file counted
C35_DecreaseWitness ==
    \E i, j \in DOMAIN progress_returns :
        /\ i < j
        /\ progress_returns[i].value = Fraction(95, 1)
        /\ progress_returns[j].value = Fraction(105, 2)

-----------------------------------------------------------------------------
(* The steps of load *)

LoadSteps == <<"NotStarted", "LoadingConfig", "BuildingRules", "LoadingFiles", "Done">>

StepIndex(s) == CHOOSE i \in DOMAIN LoadSteps : LoadSteps[i] = s

\* C36: a step of load leaves the step as it is or moves it to the next of
\* NotStarted, LoadingConfig, BuildingRules, LoadingFiles, Done; total_count
\* and loaded_count change only in a step taken with the step LoadingFiles,
\* which leaves it LoadingFiles
C36_StepsInOrder ==
    [][/\ step' # step => StepIndex(step') = StepIndex(step) + 1
       /\ (total_count' # total_count \/ loaded_count' # loaded_count) =>
              /\ step = "LoadingFiles"
              /\ step' = "LoadingFiles"]_vars

\* load has returned Ok with every file counted and loaded
C36_Witness ==
    /\ step = "Done"
    /\ load_result = "Ok"
    /\ total_count = MaxFiles
    /\ loaded_count = MaxFiles

\* load has failed while it built the rules: the step stays BuildingRules
C36_FailedWitness ==
    /\ step = "BuildingRules"
    /\ load_result = "Err"

-----------------------------------------------------------------------------
(* The categories of the rows *)

\* C37: the category and the income flag of every row of transactions are a
\* pair of categorizer.categories(), and once the step is Done the table of
\* the categories has a row with that category and that flag
C37_RowCategoriesUsed ==
    \A i \in DOMAIN Rows("transactions") :
        /\ <<Rows("transactions")[i].category, Rows("transactions")[i].income>>
               \in categorizer.categories
        /\ step = "Done" =>
               \E j \in DOMAIN Rows("categories") :
                   /\ Rows("categories")[j].category = Rows("transactions")[i].category
                   /\ Rows("categories")[j].income = Rows("transactions")[i].income

\* a run that ended Done with a row of the category Food.Out, an expense, and
\* the rows of both used categories
C37_Witness ==
    /\ step = "Done"
    /\ \E i \in DOMAIN Rows("transactions") :
           /\ Rows("transactions")[i].category = <<"Food", "Out">>
           /\ Rows("transactions")[i].income = FALSE
    /\ Len(Rows("categories")) = 2

-----------------------------------------------------------------------------
(* The walk of the accounts *)

\* the accounts whose source_path the directory is under
OwnersOf(dir) == {c \in Range(config.account) : starts_with(dir, c.source_path)}

\* the account list_accounts is walking
WalkedAccount == config.account[walker.account]

\* no pair has been sent twice
SentOnce == \A i, j \in DOMAIN sent : sent[i] = sent[j] => i = j

\* every pair sent holds the name of the one account the file is under
SentUnderOwnName ==
    \A i \in DOMAIN sent :
        /\ OwnersOf(sent[i][2].dir) # {}
        /\ \A c \in OwnersOf(sent[i][2].dir) : c.name = sent[i][1]

\* every file the walker has counted is sent, or is the one it is sending
CountedAreSent ==
    total_count = Len(sent) + (IF IsSome(walker.sending) THEN 1 ELSE 0)

\* the stack and the directory being read hold directories of the account
\* being walked only
StackOfWalkedAccount ==
    /\ \A i \in DOMAIN walker.stack :
           starts_with(walker.stack[i], WalkedAccount.source_path)
    /\ IsSome(walker.dir) => starts_with(Unwrap(walker.dir), WalkedAccount.source_path)

\* list_accounts has returned Ok: after the last account, with no directory
\* left to read and no file left to send
WalkerFinished ==
    /\ walker.account = Len(config.account)
    /\ walker.stack = << >>
    /\ walker.dir = NoneV
    /\ walker.sending = NoneV
    /\ Len(sent) = total_count

\* a step that reads an entry: a file is counted and is the next pair to be
\* sent, under the name of the account being walked and in the directory
\* being read; a directory is pushed on the stack
EntryWalked ==
    walker'.entries = walker.entries + 1 =>
        IF total_count' = total_count + 1
        THEN /\ IsSome(walker'.sending)
             /\ Unwrap(walker'.sending)[1] = WalkedAccount.name
             /\ Unwrap(walker'.sending)[2].dir = Unwrap(walker.dir)
             /\ walker'.stack = walker.stack
        ELSE /\ walker'.sending = NoneV
             /\ walker'.stack = Append(walker.stack,
                                       Append(Unwrap(walker.dir), ToString(walker'.entries)))

\* C38: in trees without symbolic links every file the walker reads is
\* counted and sent once, under the name of the account whose source_path it
\* is under and of no other; every directory it reads is pushed and read
\* before the next account is begun; and list_accounts returns, Ok after the
\* last account with every file sent, or load fails
C38_WalkerSendsOwnFiles ==
    /\ [](SentOnce /\ SentUnderOwnName /\ CountedAreSent)
    /\ [](walker.account > 0 => StackOfWalkedAccount)
    /\ [](walker.done => WalkerFinished)
    /\ [][EntryWalked]_vars
    /\ <>(walker.done \/ load_result = "Err")

\* the walker has returned: a file of a subdirectory of chequing was sent
\* under chequing, a file of visa under visa
C38_Witness ==
    /\ walker.done
    /\ Len(sent) = 2
    /\ sent[1][1] = "chequing"
    /\ sent[1][2].dir = <<"chequing", "1">>
    /\ sent[2][1] = "visa"
    /\ sent[2][2].dir = <<"visa">>

-----------------------------------------------------------------------------
(* The cursor of the lexer *)

\* the tokens among what the calls returned
TokensOf(results) == {i \in DOMAIN results : results[i].kind \notin {"None", "Err"}}

\* the calls have ended: the last returned no token
LexerEnded ==
    /\ lexed # << >>
    /\ lexed[Len(lexed)].kind \in {"None", "Err"}

\* C39: a call of Lexer::next that returns a token leaves consumed greater
\* than it found it; consumed is never beyond the length of the data; so the
\* tokens returned are no more than the bytes consumed, and the calls come to
\* one that returns no token: the end of the input, or an error
C39_CursorAdvances ==
    /\ [][Lexes /\ LastLexed.kind \notin {"None", "Err"} =>
              Unwrap(bytes_lexer').consumed > Unwrap(bytes_lexer).consumed]_vars
    /\ [][Lexes => Unwrap(bytes_lexer').consumed >= Unwrap(bytes_lexer).consumed]_vars
    /\ [](bytes_lexer # NoneV =>
              /\ Unwrap(bytes_lexer).consumed <= Len(FileData)
              /\ Cardinality(TokensOf(lexed)) <= Unwrap(bytes_lexer).consumed)
    /\ <>LexerEnded

\* three tokens were returned, consumed grew to the length of the data with
\* them, and the next call returned the end of the input
C39_Witness ==
    /\ bytes_lexer # NoneV
    /\ FileData = <<"<", "a", ">", "a", "<", "/", "b", ">">>
    /\ Unwrap(bytes_lexer).consumed = 8
    /\ Len(lexed) = 4
    /\ lexed[3] = [kind |-> "CloseKey", text |-> <<"b">>]
    /\ lexed[4] = [kind |-> "None"]

\* the calls ended with an error, before the end of the data
C39_ErrorWitness ==
    /\ bytes_lexer # NoneV
    /\ LexerEnded
    /\ lexed[Len(lexed)].kind = "Err"
    /\ Len(lexed) > 1
    /\ Unwrap(bytes_lexer).consumed < Len(FileData)

-----------------------------------------------------------------------------
(* The closes that elision hides *)

\* the token at position i closes a field: it is a CloseKey, the token before
\* it is a Value and the token before that is the OpenKey of the same name
ClosesField(all, i) ==
    /\ i >= 3
    /\ all[i].kind = "CloseKey"
    /\ all[i - 1].kind = "Value"
    /\ all[i - 2].kind = "OpenKey"
    /\ all[i - 2].text = all[i].text

\* the tokens from position i on, without the closes of fields
RECURSIVE WithoutFieldCloses(_, _)
WithoutFieldCloses(all, i) ==
    IF i > Len(all) THEN << >>
    ELSE (IF ClosesField(all, i) THEN << >> ELSE <<all[i]>>)
         \o WithoutFieldCloses(all, i + 1)

\* C40: with elision, the calls of Lexer::next return what they return
\* without it, less the CloseKeys that come right after a Value that comes
\* right after the OpenKey of the same name, and less nothing else: the close
\* of an open key with no value or only whitespace after it, and a close of
\* another name than the last open key, are returned
C40_OnlyFieldClosesHidden ==
    Unwrap(bytes_lexer).hide_field_close =>
        LET kept == WithoutFieldCloses(lex_all(Lexer_new_bytes(FileData, FALSE)), 1)
        IN  /\ Len(lexed) <= Len(kept)
            /\ lexed = SubSeq(kept, 1, Len(lexed))

\* the close of the field a is hidden, the close of b after it, which
\* follows no open key, is returned
C40_Witness ==
    /\ Unwrap(bytes_lexer).hide_field_close
    /\ FileData = <<"<", "a", ">", "a", "<", "/", "a", ">", "<", "/", "b", ">">>
    /\ lexed = << [kind |-> "OpenKey", text |-> <<"a">>],
                  [kind |-> "Value", text |-> <<"a">>],
                  [kind |-> "CloseKey", text |-> <<"b">>],
                  [kind |-> "None"] >>

\* an open key with its close right after it: the close is returned
C40_EmptyFieldWitness ==
    /\ Unwrap(bytes_lexer).hide_field_close
    /\ FileData = <<"<", "a", ">", "<", "/", "a", ">">>
    /\ lexed = << [kind |-> "OpenKey", text |-> <<"a">>],
                  [kind |-> "CloseKey", text |-> <<"a">>],
                  [kind |-> "None"] >>

\* a value closed under another name than the open key before it: the close
\* is returned
C40_OtherNameWitness ==
    /\ Unwrap(bytes_lexer).hide_field_close
    /\ FileData = <<"<", "a", ">", "a", "<", "/", "b", ">">>
    /\ lexed = << [kind |-> "OpenKey", text |-> <<"a">>],
                  [kind |-> "Value", text |-> <<"a">>],
                  [kind |-> "CloseKey", text |-> <<"b">>],
                  [kind |-> "None"] >>

====
